---- MODULE Spec2Model ----
(***************************************************************************)
(* A model of the ZZ library (src/zz.c): arbitrary-precision integers in   *)
(* sign-magnitude form over an array of digits.                            *)
(*                                                                         *)
(* A value (zz_t) is a record [negative, alloc, size, digits]; the heap    *)
(* maps a slot (the address of a zz_t) to its record, so two arguments     *)
(* that name the same slot are the same object.  Every zz_* function is an *)
(* operator from a machine state m = [h, fail, part, ub, trap, ret] to the *)
(* machine state after the call: h is the heap, ret the zz_err returned,   *)
(* fail the allocation oracle (the fail-th allocation attempt from now on  *)
(* returns NULL; 0 means none does), part the number of result digits a    *)
(* kernel has stored when its scratch allocation fails, ub the outcome of  *)
(* an int64_t division with undefined behaviour ("wrap" or "trap") and     *)
(* trap whether the call was ended by the trap.                            *)
(*                                                                         *)
(* The digit width is scaled from 64 bits to ZZ_DIGIT_T_BITS bits so that  *)
(* every intermediate product fits TLC's integers; int64_t and uint64_t    *)
(* operands are scaled to the same width and keep their wrap-around.       *)
(***************************************************************************)
EXTENDS Integers, Sequences, FiniteSets, TLC

VARIABLES heap,     \* slot -> zz_t
          pc,       \* position of the driver: "start", "run", "done", ...
          ret,      \* zz_err of the last operation
          last,     \* the last operation: its name and arguments
          pre,      \* the heap before the last operation
          aux,      \* per-specification data (results written to C scalars, flags)
          tracker   \* the thread-local registry of temporary allocations

vars == <<heap, pc, ret, last, pre, aux, tracker>>

-----------------------------------------------------------------------------
(* Constants of the program *)

ZZ_DIGIT_T_BITS == 2
MaxDigits == 2
(* ZZ_BITS_MAX / ZZ_DIGIT_T_BITS, scaled so that a product of two operands of
   MaxDigits digits reaches the limit *)
ZZ_DIGITS_MAX == 2 * MaxDigits
ZZ_BITS_MAX == ZZ_DIGITS_MAX * ZZ_DIGIT_T_BITS + (ZZ_DIGIT_T_BITS - 1)

ZZ_OK == 0
ZZ_MEM == -1
ZZ_VAL == -2
ZZ_BUF == -3

ZZ_GT == 1
ZZ_EQ == 0
ZZ_LT == -1

(* the content of a digit that was allocated and never stored, or that a
   kernel stored under a violated precondition *)
Uninit == -1

B == 2 ^ ZZ_DIGIT_T_BITS
ZZ_DIGIT_T_MAX == B - 1
INT64_MAX == (B \div 2) - 1
INT64_MIN == 0 - (B \div 2)
Int64 == INT64_MIN .. INT64_MAX
UInt64 == 0 .. (B - 1)
(* int32_t has half the width of a digit *)
INT32_BITS == ZZ_DIGIT_T_BITS \div 2
INT32_MAX == 2 ^ (INT32_BITS - 1) - 1
INT32_MIN == 0 - 2 ^ (INT32_BITS - 1)
Int32 == INT32_MIN .. INT32_MAX
UINT32_MAX == 2 ^ INT32_BITS - 1
UInt32 == 0 .. UINT32_MAX
NULL == "NULL"

(* two's-complement wrap of an integer to the int64_t range *)
WrapI64(x) == ((x + (B \div 2)) % B) - (B \div 2)
(* wrap of an integer to the uint64_t / zz_digit_t range *)
WrapU64(x) == x % B
(* ABS_CAST(zz_digit_t, v): negate in the unsigned type *)
ABS_CAST(v) == IF v < 0 THEN WrapU64(0 - v) ELSE WrapU64(v)

-----------------------------------------------------------------------------
(* Digit arrays *)

RECURSIVE Mag(_, _)
Mag(d, n) == IF n = 0 THEN 0 ELSE d[n] * B ^ (n - 1) + Mag(d, n - 1)

(* a digit array is an explicit tuple, so that element updates, SubSeq and
   Len all see the same contents *)
Arr(f) == f \o <<>>

ToDigits(x, n) == Arr([i \in 1 .. n |-> (x \div B ^ (i - 1)) % B])

Poisoned(d, n) == \E i \in 1 .. n : d[i] = Uninit

(* what a kernel stores for the n-digit result x; indeterminate digits if it
   read an indeterminate digit or its operands overlapped illegally *)
KOut(x, n, bad) == IF bad THEN Arr([i \in 1 .. n |-> Uninit]) ELSE ToDigits(x % B ^ n, n)

(* store the sequence ds at digits[off .. off + Len(ds) - 1] (off is 0-based) *)
Store(d, off, ds) ==
    Arr([i \in 1 .. Len(d) |->
            IF i > off /\ i <= off + Len(ds) THEN ds[i - off] ELSE d[i]])

InitZ == [negative |-> FALSE, alloc |-> 0, size |-> 0, digits |-> <<>>]

(* the integer a value stands for *)
Val(z) == (IF z.negative THEN -1 ELSE 1) * Mag(z.digits, z.size)

Defined(z) == z.size <= z.alloc /\ ~Poisoned(z.digits, z.size)

Canonical(z) ==
    /\ z.size <= z.alloc
    /\ z.size > 0 => z.digits[z.size] # 0
    /\ z.size = 0 => z.negative = FALSE

(* a canonical value of integer x with alloc = size, as zz_set_str or an
   arithmetic operation into a fresh value leaves it *)
RECURSIVE NDigits(_)
NDigits(x) == IF x = 0 THEN 0 ELSE 1 + NDigits(x \div B)

MkZ(x) ==
    LET a == IF x < 0 THEN 0 - x ELSE x
        n == NDigits(a)
    IN [negative |-> x < 0, alloc |-> n, size |-> n, digits |-> ToDigits(a, n)]

-----------------------------------------------------------------------------
(* Machine state and allocation *)

Ret(m, r) == [m EXCEPT !.ret = r]
(* a local variable: Bind(e, LAMBDA a : body) is body with a standing for e *)
Bind(a, F(_)) == F(a)
(* in a chain a || b || ... of calls, a failed call stops the chain *)
OrElse(a, F(_)) == IF a.ret # ZZ_OK THEN a ELSE F(a)
SETNEG(m, n, u) == [m EXCEPT !.h[u].negative = n]
SETSIZE(m, n, u) == [m EXCEPT !.h[u].size = n]
SetDigit(m, u, i, x) == [m EXCEPT !.h[u].digits[i] = x]
PutDigits(m, u, off, ds) == [m EXCEPT !.h[u].digits = Store(@, off, ds)]

(* one allocation attempt (malloc, realloc or a kernel's scratch) *)
AllocFails(m) == m.fail = 1
Tick(m) == [m EXCEPT !.fail = IF @ > 0 THEN @ - 1 ELSE 0]

zz_init(m, u) == [m EXCEPT !.h[u] = InitZ, !.ret = ZZ_OK]

zz_resize(m, size, u) ==
    IF m.h[u].alloc >= size
    THEN [m EXCEPT !.h[u].size = size,
                   !.h[u].negative = IF size = 0 THEN FALSE ELSE @,
                   !.ret = ZZ_OK]
    ELSE IF AllocFails(m)
         THEN Ret(Tick(m), ZZ_MEM)
         ELSE [Tick(m) EXCEPT
                   !.h[u].digits = Arr([i \in 1 .. size |->
                                       IF i <= Len(@) THEN @[i] ELSE Uninit]),
                   !.h[u].alloc = size,
                   !.h[u].size = size,
                   !.ret = ZZ_OK]

zz_clear(m, u) == [m EXCEPT !.h[u] = InitZ]

RECURSIVE NormSize(_, _)
NormSize(d, n) == IF n > 0 /\ d[n] = 0 THEN NormSize(d, n - 1) ELSE n

(* a result whose leading zero digits are kept *)
zz_normalize_skip(m, u) == m

zz_normalize(m, u) ==
    LET n == NormSize(m.h[u].digits, m.h[u].size)
    IN [m EXCEPT !.h[u].size = n,
                 !.h[u].negative = IF n = 0 THEN FALSE ELSE @]

(* a quotient or product whose top digit is not tested *)
KeepTopZero(m, w) == m

(* w->size -= w->digits[w->size - 1] == 0 *)
DropTopZero(m, w) ==
    LET n == m.h[w].size
    IN IF m.h[w].digits[n] = 0 THEN SETSIZE(m, n - 1, w) ELSE m

-----------------------------------------------------------------------------
(* Assignment *)

zz_set_i64(m, u, v) ==
    IF u = 0
    THEN Ret(SETNEG(SETSIZE(m, 0, v), FALSE, v), ZZ_OK)
    ELSE Bind(zz_resize(m, 1, v), LAMBDA a :
         IF a.ret # ZZ_OK
         THEN Ret(a, ZZ_MEM)
         ELSE Ret(SetDigit(SETNEG(a, u < 0, v), v, 1, ABS_CAST(u)), ZZ_OK))

(* abs(INT32_MIN) overflows int (undefined): the negation wraps and the
   conversion to zz_digit_t extends the sign, or the conversion extends a
   value taken to be non-negative with zeros, or the overflow traps *)
AbsOutcomes == {"wrap", "zext", "trap"}

(* (zz_digit_t)abs(u) *)
abs_i32(u, ub) ==
    IF u = INT32_MIN
    THEN IF ub = "zext" THEN 0 - INT32_MIN ELSE WrapU64(INT32_MIN)
    ELSE IF u < 0 THEN 0 - u ELSE u

zz_set_i32(m, u, v) ==
    IF u = 0
    THEN Ret(SETNEG(SETSIZE(m, 0, v), FALSE, v), ZZ_OK)
    ELSE Bind(zz_resize(m, 1, v), LAMBDA a :
         IF a.ret # ZZ_OK
         THEN Ret(a, ZZ_MEM)
         ELSE IF u = INT32_MIN /\ a.ub = "trap"
         THEN [SETNEG(a, u < 0, v) EXCEPT !.trap = TRUE]
         ELSE Ret(SetDigit(SETNEG(a, u < 0, v), v, 1, abs_i32(u, a.ub)), ZZ_OK))

zz_set_u64(m, u, v) ==
    IF u = 0
    THEN Ret(SETNEG(SETSIZE(m, 0, v), FALSE, v), ZZ_OK)
    ELSE Bind(zz_resize(m, 1, v), LAMBDA a :
         IF a.ret # ZZ_OK
         THEN Ret(a, ZZ_MEM)
         ELSE Ret(SetDigit(SETNEG(a, FALSE, v), v, 1, u), ZZ_OK))

zz_pos(m, u, v) ==
    IF u # v
    THEN IF m.h[u].size = 0
         THEN zz_set_i64(m, 0, v)
         ELSE Bind(zz_resize(m, m.h[u].size, v), LAMBDA a :
              IF a.ret # ZZ_OK
              THEN Ret(a, ZZ_MEM)
              ELSE Ret(PutDigits(SETNEG(a, a.h[u].negative, v), v, 0,
                                 SubSeq(a.h[u].digits, 1, a.h[u].size)),
                       ZZ_OK))
    ELSE Ret(m, ZZ_OK)

zz_abs(m, u, v) ==
    Bind(IF u # v THEN zz_pos(m, u, v) ELSE Ret(m, ZZ_OK), LAMBDA a :
    IF a.ret # ZZ_OK THEN Ret(a, ZZ_MEM) ELSE Ret(SETNEG(a, FALSE, v), ZZ_OK))

zz_neg(m, u, v) ==
    Bind(IF u # v THEN zz_pos(m, u, v) ELSE Ret(m, ZZ_OK), LAMBDA a :
    IF a.ret # ZZ_OK
    THEN Ret(a, ZZ_MEM)
    ELSE IF a.h[v].size # 0
         THEN Ret(SETNEG(a, ~a.h[u].negative, v), ZZ_OK)
         ELSE Ret(a, ZZ_OK))

-----------------------------------------------------------------------------
(* Conversion from text: zz_set_str.  A text is a sequence of characters;
   the parse buffer buf is the heap slot str_buf, its bytes are carried in
   the local p. *)

isspace(c) == c = " "
tolower(c) == IF c = "B" THEN "b" ELSE IF c = "O" THEN "o" ELSE IF c = "X" THEN "x" ELSE c

(* (unsigned char)DIGIT_VALUE_TAB[c] *)
DIGIT_VALUE_TAB(c) ==
    CASE c = "0" -> 0
      [] c = "1" -> 1
      [] c \in {"b", "B"} -> 11
      [] c \in {"o", "O"} -> 24
      [] c \in {"x", "X"} -> 33
      [] OTHER -> 255

(* if (base == 0) base = 10: the default base, scaled like the digit so
   that 1 + len/2 digits hold a text of len characters *)
DEFAULT_BASE == 2

StrErr == [kind |-> "err"]

(* while (len && isspace(p[0])) { p++; len--; } *)
RECURSIVE str_skip_space(_)
str_skip_space(p) ==
    IF Len(p) > 0 /\ isspace(p[1]) THEN str_skip_space(Tail(p)) ELSE p

(* memmove(p + i, p + i + 1, len - i - 1): the last byte stays where it was *)
str_memmove(p, i) ==
    Arr([k \in 1 .. Len(p) |-> IF k >= i + 1 /\ k < Len(p) THEN p[k + 1] ELSE p[k]])

(* an underscore removed without moving the bytes that follow it *)
str_memmove_skip(p, i) == p

(* the loop over p[i], i = 0 .. len - 1, from index i on *)
RECURSIVE str_loop(_, _, _, _)
str_loop(p, i, new_len, base) ==
    IF i >= Len(p) THEN [kind |-> "digits", p |-> p, len |-> new_len]
    ELSE IF p[i + 1] = "_" /\ (i = Len(p) - 1 \/ p[i + 2] = "_") THEN StrErr
    ELSE LET under == p[i + 1] = "_"
             q == IF under THEN str_memmove(p, i) ELSE p
             nl == IF under THEN new_len - 1 ELSE new_len
             c == DIGIT_VALUE_TAB(q[i + 1])
         IN IF c < base
            THEN str_loop([q EXCEPT ![i + 1] = c], i + 1, nl, base)
            ELSE IF ~isspace(q[i + 1]) THEN StrErr
            ELSE IF \E j \in i + 2 .. Len(q) : ~isspace(q[j]) THEN StrErr
            ELSE [kind |-> "digits", p |-> q, len |-> nl - 1 - (Len(q) - (i + 1))]

(* from the second prefix test on; p[0] is read also when len is 0 *)
str_body(p, base0, negative) ==
    LET skip == /\ Len(p) >= 2
                /\ p[1] = "0"
                /\ \/ base0 = 2 /\ tolower(p[2]) = "b"
                   \/ base0 = 8 /\ tolower(p[2]) = "o"
                   \/ base0 = 16 /\ tolower(p[2]) = "x"
        q == IF skip THEN SubSeq(p, 3, Len(p)) ELSE p
        base == IF base0 = 0 THEN DEFAULT_BASE ELSE base0
    IN IF Len(q) = 0 \/ q[1] = "_" THEN StrErr
       ELSE LET r == str_loop(q, 0, Len(q), base)
            IN IF r.kind = "err" THEN StrErr
               ELSE [kind |-> "digits", p |-> r.p, len |-> r.len,
                     negative |-> negative, base |-> base]

(* if (p[0] == '0' && base == 0) *)
str_auto(p, negative) ==
    IF Len(p) = 1 THEN [kind |-> "zero"]
    ELSE LET base == IF tolower(p[2]) = "b" THEN 2
                     ELSE IF tolower(p[2]) = "o" THEN 8
                     ELSE IF tolower(p[2]) = "x" THEN 16
                     ELSE 0
             q == SubSeq(p, 3, Len(p))
         IN IF base = 0 /\ ~isspace(p[2]) THEN StrErr
            ELSE str_body(IF Len(q) > 0 /\ q[1] = "_" THEN Tail(q) ELSE q,
                          base, negative)

(* leading whitespace, sign and the prefix tests *)
str_head(str, base) ==
    LET s1 == str_skip_space(str)
        negative == Len(s1) > 0 /\ s1[1] = "-"
        s2 == IF negative THEN Tail(s1) ELSE s1
        s3 == IF ~negative /\ Len(s2) > 0 /\ s2[1] = "+" THEN Tail(s2) ELSE s2
    IN IF Len(s1) = 0 \/ Len(s2) = 0 \/ Len(s3) = 0 THEN StrErr
       ELSE IF s3[1] = "_" THEN StrErr
       ELSE IF s3[1] = "0" /\ base = 0 THEN str_auto(s3, negative)
       ELSE str_body(s3, base, negative)

RECURSIVE str_value(_, _, _)
str_value(p, len, base) ==
    IF len = 0 THEN 0 ELSE str_value(p, len - 1, base) * base + p[len]

IsPow2(b) == b \in {2, 4, 8, 16, 32}

(* mpn_set_str(u->digits, p, len, base) and what follows it; the input of
   the kernel must have at least one byte *)
str_convert(m, r, u) ==
    LET x == str_value(r.p, r.len, r.base)
        n == IF r.len = 0 THEN m.h[u].size ELSE NDigits(x)
    IN Bind(zz_clear(PutDigits(SETSIZE(SETNEG(m, r.negative, u), n, u), u, 0,
                               KOut(x, n, r.len = 0)), "str_buf"), LAMBDA a :
       Bind(zz_resize(a, a.h[u].size, u), LAMBDA b :
       IF b.ret # ZZ_OK THEN Ret(b, ZZ_MEM) ELSE Ret(zz_normalize(b, u), ZZ_OK)))

zz_set_str(m, str, base, u) ==
    IF base # 0 /\ (base < 2 \/ base > 36) THEN Ret(m, ZZ_VAL)
    ELSE IF AllocFails(m) THEN Ret(Tick(m), ZZ_MEM)
    ELSE
    Bind([Tick(m) EXCEPT !.h["str_buf"] =
              [InitZ EXCEPT !.alloc = Len(str), !.digits = KOut(0, Len(str), TRUE)]],
         LAMBDA a :
    LET r == str_head(str, base)
    IN IF r.kind = "err" THEN Ret(zz_clear(a, "str_buf"), ZZ_VAL)
       ELSE IF r.kind = "zero" THEN zz_set_i64(zz_clear(a, "str_buf"), 0, u)
       ELSE IF 1 + r.len \div 2 > ZZ_DIGITS_MAX THEN Ret(a, ZZ_BUF)
       ELSE Bind(zz_resize(a, 1 + r.len \div 2, u), LAMBDA b :
            IF b.ret # ZZ_OK THEN Ret(zz_clear(b, "str_buf"), ZZ_MEM)
            ELSE IF ~IsPow2(r.base) /\ r.len > 1 /\ AllocFails(b)
            THEN (* TMP_OVERFLOW *) Ret(zz_clear(Tick(b), "str_buf"), ZZ_MEM)
            ELSE str_convert(b, r, u)))

-----------------------------------------------------------------------------
(* Addition and subtraction *)

zz_addsub(m, u0, v0, subtract, w) ==
    LET negu0 == m.h[u0].negative
        negv0 == IF subtract THEN ~m.h[v0].negative ELSE m.h[v0].negative
        same_sign == negu0 = negv0
        swap == m.h[u0].size < m.h[v0].size
        u == IF swap THEN v0 ELSE u0
        v == IF swap THEN u0 ELSE v0
        negu == IF swap THEN negv0 ELSE negu0
        negv == IF swap THEN negu0 ELSE negv0
        u_size == m.h[u].size
        v_size == m.h[v].size
    IN IF same_sign /\ u_size = ZZ_DIGITS_MAX
       THEN Ret(m, ZZ_BUF)
       ELSE
       Bind(zz_resize(m, u_size + (IF same_sign THEN 1 ELSE 0), w), LAMBDA a :
       IF a.ret # ZZ_OK
       THEN Ret(a, ZZ_MEM)
       ELSE
       Bind(SETNEG(a, negu, w), LAMBDA b :
       LET bad == Poisoned(b.h[u].digits, u_size) \/ Poisoned(b.h[v].digits, v_size)
           U == Mag(b.h[u].digits, u_size)
           V == Mag(b.h[v].digits, v_size)
       IN Ret(zz_normalize(
                IF same_sign
                THEN (* mpn_add, then the carry into the top digit *)
                     SetDigit(PutDigits(b, w, 0, KOut(U + V, u_size, bad)),
                              w, b.h[w].size,
                              IF bad THEN Uninit ELSE (U + V) \div B ^ u_size)
                ELSE IF u_size # v_size
                THEN (* mpn_sub *)
                     PutDigits(b, w, 0, KOut(U - V, u_size, bad))
                ELSE IF U < V
                THEN SETNEG(PutDigits(b, w, 0, KOut(V - U, u_size, bad)), negv, w)
                ELSE IF U > V
                THEN PutDigits(b, w, 0, KOut(U - V, u_size, bad))
                ELSE SETSIZE(b, 0, w),
                w), ZZ_OK)))

zz_addsub_u64(m, u, v, subtract, w) ==
    LET negu == m.h[u].negative
        negv == subtract
        same_sign == negu = negv
        u_size == m.h[u].size
        v_size == IF v # 0 THEN 1 ELSE 0
    IN IF u_size = 0 \/ u_size < v_size
       THEN Bind(zz_resize(m, v_size, w), LAMBDA a :
            IF a.ret # ZZ_OK
            THEN Ret(a, ZZ_MEM)
            ELSE Bind(IF v_size # 0 THEN SetDigit(a, w, 1, v) ELSE a, LAMBDA b :
                 Ret(SETNEG(b, IF b.h[w].size # 0 THEN negv ELSE FALSE, w), ZZ_OK)))
       ELSE IF same_sign /\ u_size = ZZ_DIGITS_MAX
       THEN Ret(m, ZZ_BUF)
       ELSE
       Bind(zz_resize(m, u_size + (IF same_sign THEN 1 ELSE 0), w), LAMBDA a :
       IF a.ret # ZZ_OK
       THEN Ret(a, ZZ_MEM)
       ELSE
       Bind(SETNEG(a, negu, w), LAMBDA b :
       LET bad == Poisoned(b.h[u].digits, u_size)
           U == Mag(b.h[u].digits, u_size)
       IN Ret(zz_normalize(
                IF same_sign
                THEN (* mpn_add_1 *)
                     SetDigit(PutDigits(b, w, 0, KOut(U + v, u_size, bad)),
                              w, b.h[w].size,
                              IF bad THEN Uninit ELSE (U + v) \div B ^ u_size)
                ELSE IF u_size # 1
                THEN (* mpn_sub_1 *)
                     PutDigits(b, w, 0, KOut(U - v, u_size, bad))
                ELSE IF b.h[u].digits[1] < v
                THEN SETNEG(SetDigit(b, w, 1, v - b.h[u].digits[1]), negv, w)
                ELSE SetDigit(b, w, 1, b.h[u].digits[1] - v),
                w), ZZ_OK)))

zz_addsub_i64(m, u, v, subtract, w) ==
    zz_addsub_u64(m, u, ABS_CAST(v), IF subtract THEN v >= 0 ELSE v < 0, w)

zz_add(m, u, v, w) == zz_addsub(m, u, v, FALSE, w)
zz_sub(m, u, v, w) == zz_addsub(m, u, v, TRUE, w)
zz_add_u64(m, u, v, w) == zz_addsub_u64(m, u, v, FALSE, w)
zz_sub_u64(m, u, v, w) == zz_addsub_u64(m, u, v, TRUE, w)

zz_u64_sub(m, u, v, w) ==
    Bind(zz_neg(m, v, w), LAMBDA a :
    IF a.ret # ZZ_OK THEN Ret(a, ZZ_MEM) ELSE zz_addsub_u64(a, w, u, FALSE, w))

zz_add_i64(m, u, v, w) == zz_addsub_i64(m, u, v, FALSE, w)
zz_sub_i64(m, u, v, w) == zz_addsub_i64(m, u, v, TRUE, w)

zz_i64_sub(m, u, v, w) ==
    Bind(zz_neg(m, v, w), LAMBDA a :
    IF a.ret # ZZ_OK THEN Ret(a, ZZ_MEM) ELSE zz_addsub_i64(a, w, u, FALSE, w))

-----------------------------------------------------------------------------
(* Multiplication *)

(* A kernel whose scratch allocation fails escapes to the checkpoint
   (longjmp): the first m.part digits of its result are stored, the others
   keep what the cells held. *)
KernelEscape(m, w, x, n) ==
    PutDigits(Tick(m), w, 0, SubSeq(ToDigits(x % B ^ n, n), 1, IF m.part < n THEN m.part ELSE n))

zz_mul_u64(m, u, v, w) ==
    IF m.h[u].size = 0 \/ v = 0
    THEN zz_set_i64(m, 0, w)
    ELSE IF m.h[u].size = ZZ_DIGITS_MAX
    THEN Ret(m, ZZ_BUF)
    ELSE
    Bind(zz_resize(m, m.h[u].size + 1, w), LAMBDA a :
    IF a.ret # ZZ_OK
    THEN Ret(a, ZZ_MEM)
    ELSE
    Bind(SETNEG(a, a.h[u].negative, w), LAMBDA b :
    LET u_size == m.h[u].size
        bad == Poisoned(b.h[u].digits, u_size)
        P == Mag(b.h[u].digits, u_size) * v
    IN (* mpn_mul_1 (no scratch), then its carry *)
       Ret(DropTopZero(SetDigit(PutDigits(b, w, 0, KOut(P, u_size, bad)),
                                w, b.h[w].size,
                                IF bad THEN Uninit ELSE P \div B ^ u_size),
                       w), ZZ_OK)))

zz_mul_i64(m, u, v, w) ==
    Bind(zz_mul_u64(m, u, ABS_CAST(v), w), LAMBDA a :
    IF a.h[w].size # 0
    THEN SETNEG(a, a.h[u].negative # (v < 0), w)
    ELSE a)

(* the kernel part of zz_mul: no operand is the product *)
zz_mul_kernel(m, u, v, w) ==
    IF m.h[u].size + m.h[v].size > ZZ_DIGITS_MAX
    THEN Ret(m, ZZ_BUF)
    ELSE
    Bind(zz_resize(m, m.h[u].size + m.h[v].size, w), LAMBDA a :
    IF a.ret # ZZ_OK
    THEN Ret(a, ZZ_MEM)
    ELSE
    Bind(SETNEG(a, a.h[u].negative # a.h[v].negative, w), LAMBDA b :
    LET w_size == m.h[u].size + m.h[v].size
        (* mpn_mul_n, mpn_sqr, mpn_mul: no operand may overlap the product *)
        bad == Poisoned(b.h[u].digits, b.h[u].size)
               \/ Poisoned(b.h[v].digits, b.h[v].size)
               \/ u = w \/ v = w
        P == Mag(b.h[u].digits, b.h[u].size) * Mag(b.h[v].digits, b.h[v].size)
    IN IF AllocFails(b)
       THEN (* TMP_OVERFLOW *)
            Ret(KernelEscape(b, w, IF bad THEN 0 ELSE P, w_size), ZZ_MEM)
       ELSE Ret(DropTopZero(PutDigits(Tick(b), w, 0, KOut(P, w_size, bad)), w),
                ZZ_OK)))

(* zz_mul without the copies it takes of an operand that is also the
   product *)
zz_mul_nocopy(m, u0, v0, w) ==
    LET swap == m.h[u0].size < m.h[v0].size
        u == IF swap THEN v0 ELSE u0
        v == IF swap THEN u0 ELSE v0
    IN IF m.h[v].size <= 1
       THEN Bind(zz_mul_u64(m, u, IF m.h[v].size # 0 THEN m.h[v].digits[1] ELSE 0, w),
                 LAMBDA a :
            IF a.h[w].size # 0
            THEN SETNEG(a, m.h[u].negative # m.h[v].negative, w)
            ELSE a)
       ELSE zz_mul_kernel(m, u, v, w)

RECURSIVE zz_mul(_, _, _, _)
zz_mul(m, u0, v0, w) ==
    LET swap == m.h[u0].size < m.h[v0].size
        u == IF swap THEN v0 ELSE u0
        v == IF swap THEN u0 ELSE v0
    IN IF m.h[v].size <= 1
       THEN Bind(zz_mul_u64(m, u, IF m.h[v].size # 0 THEN m.h[v].digits[1] ELSE 0, w),
                 LAMBDA a :
            IF a.h[w].size # 0
            THEN SETNEG(a, m.h[u].negative # m.h[v].negative, w)
            ELSE a)
       ELSE IF u = w
       THEN Bind(zz_pos(zz_init(m, "mul_tmp"), u, "mul_tmp"), LAMBDA a :
            IF a.ret # ZZ_OK
            THEN Ret(zz_clear(a, "mul_tmp"), ZZ_MEM)
            ELSE zz_clear(IF u = v
                          THEN zz_mul(a, "mul_tmp", "mul_tmp", w)
                          ELSE zz_mul(a, "mul_tmp", v, w),
                          "mul_tmp"))
       ELSE IF v = w
       THEN Bind(zz_pos(zz_init(m, "mul_tmp"), v, "mul_tmp"), LAMBDA a :
            IF a.ret # ZZ_OK
            THEN Ret(zz_clear(a, "mul_tmp"), ZZ_MEM)
            ELSE zz_clear(zz_mul(a, u, "mul_tmp", w), "mul_tmp"))
       ELSE zz_mul_kernel(m, u, v, w)

-----------------------------------------------------------------------------
(* Conversion to machine integers *)

(* zz_get_*(u, &v): the error code, whether *v was stored, and the value *)
Got(x) == [ret |-> ZZ_OK, w |-> TRUE, v |-> x]
NotGot(r) == [ret |-> r, w |-> FALSE, v |-> 0]

zz_get_i32(z) ==
    IF z.size = 0 THEN Got(0)
    ELSE IF z.size > 1 THEN NotGot(ZZ_BUF)
    ELSE LET uv == z.digits[1]
         IN IF z.negative
            THEN IF uv <= INT32_MAX + 1
                 THEN Got(-1 - (WrapU64(uv - 1) % (INT32_MAX + 1)))
                 ELSE NotGot(ZZ_BUF)
            ELSE IF uv <= INT32_MAX
                 THEN Got(uv)
                 ELSE NotGot(ZZ_BUF)

zz_get_i64(z) ==
    IF z.size = 0 THEN Got(0)
    ELSE IF z.size > 1 THEN NotGot(ZZ_BUF)
    ELSE LET uv == z.digits[1]
         IN IF z.negative
            THEN IF uv <= INT64_MAX + 1
                 THEN Got(-1 - (WrapU64(uv - 1) % (INT64_MAX + 1)))
                 ELSE NotGot(ZZ_BUF)
            ELSE IF uv <= INT64_MAX
                 THEN Got(uv)
                 ELSE NotGot(ZZ_BUF)

zz_get_u32(z) ==
    IF z.negative THEN NotGot(ZZ_VAL)
    ELSE IF z.size = 0 THEN Got(0)
    ELSE IF z.size > 1 \/ z.digits[1] > UINT32_MAX THEN NotGot(ZZ_BUF)
    ELSE Got(z.digits[1])

(* a conversion that does not look at the sign *)
zz_get_u64_unsigned(z) ==
    IF z.size > 1 THEN NotGot(ZZ_BUF)
    ELSE Got(IF z.size # 0 THEN z.digits[1] ELSE 0)

zz_get_u64(z) ==
    IF z.negative THEN NotGot(ZZ_VAL)
    ELSE IF z.size > 1 THEN NotGot(ZZ_BUF)
    ELSE Got(IF z.size # 0 THEN z.digits[1] ELSE 0)

-----------------------------------------------------------------------------
(* Division *)

(* the err: label of zz_div *)
div_err(m, q, r) == Ret(zz_clear(zz_clear(m, q), r), ZZ_MEM)

(* zz_div without the adjustment: the kernel's truncated quotient and
   remainder *)
zz_div_noadjust(e, v, q, r) == Ret(e, ZZ_OK)

(* the quotient/remainder adjustment of zz_div, lines 1384-1394 *)
zz_div_adjust(e, v, q, r) ==
    IF e.h[q].negative /\ e.h[r].size # 0
    THEN Bind(zz_sub_i64(e, q, 1, q), LAMBDA f :
         IF f.ret # ZZ_OK THEN div_err(f, q, r)
         ELSE
         Bind(SETSIZE(f, f.h[v].size, r), LAMBDA g :
         LET v_size == g.h[v].size
             bad2 == Poisoned(g.h[v].digits, v_size) \/ Poisoned(g.h[r].digits, v_size)
             D == IF bad2 THEN 0
                  ELSE Mag(g.h[v].digits, v_size) - Mag(g.h[r].digits, v_size)
         IN (* mpn_sub_n *)
            Ret(zz_normalize(PutDigits(g, r, 0, KOut(D, v_size, bad2)), r), ZZ_OK)))
    ELSE Ret(e, ZZ_OK)

(* zz_div when no output is an operand and u has at least v's digits *)
zz_div_kernel(m, u, v, q, r) ==
    Bind(zz_resize(m, m.h[u].size - m.h[v].size + 1, q), LAMBDA a :
    IF a.ret # ZZ_OK THEN div_err(a, q, r)
    ELSE
    Bind(zz_resize(a, a.h[v].size, r), LAMBDA b :
    IF b.ret # ZZ_OK THEN div_err(b, q, r)
    ELSE
    Bind(SETNEG(SETNEG(b, b.h[u].negative # b.h[v].negative, q), b.h[v].negative, r),
         LAMBDA c :
    IF AllocFails(c) THEN (* TMP_OVERFLOW *) div_err(Tick(c), q, r)
    ELSE
    LET u_size == m.h[u].size
        v_size == c.h[v].size
        q_size == c.h[q].size
        (* mpn_tdiv_qr: no output may overlap an operand, and the top digit
           of the divisor is nonzero *)
        bad == \/ q \in {u, v} \/ r \in {u, v} \/ q = r
               \/ Poisoned(c.h[u].digits, u_size)
               \/ Poisoned(c.h[v].digits, v_size)
               \/ c.h[v].digits[v_size] = 0
        U == IF bad THEN 0 ELSE Mag(c.h[u].digits, u_size)
        V == IF bad THEN 1 ELSE Mag(c.h[v].digits, v_size)
    IN zz_div_adjust(
           zz_normalize(
               DropTopZero(
                   PutDigits(PutDigits(Tick(c), q, 0, KOut(U \div V, q_size, bad)),
                             r, 0, KOut(U % V, v_size, bad)),
                   q),
               r),
           v, q, r))))

RECURSIVE zz_div(_, _, _, _, _)
zz_div(m, u, v, q, r) ==
    IF m.h[v].size = 0 THEN Ret(m, ZZ_VAL)
    ELSE IF q = NULL /\ r = NULL THEN Ret(m, ZZ_OK)
    ELSE IF q = NULL
    THEN zz_clear(zz_div(zz_init(m, "div_q"), u, v, "div_q", r), "div_q")
    ELSE IF r = NULL
    THEN zz_clear(zz_div(zz_init(m, "div_r"), u, v, q, "div_r"), "div_r")
    ELSE IF m.h[u].size = 0
    THEN Bind(zz_set_i64(m, 0, q), LAMBDA a :
         IF a.ret # ZZ_OK THEN div_err(a, q, r)
         ELSE Bind(zz_set_i64(a, 0, r), LAMBDA b :
              IF b.ret # ZZ_OK THEN div_err(b, q, r) ELSE Ret(b, ZZ_OK)))
    ELSE IF m.h[u].size < m.h[v].size
    THEN IF m.h[u].negative # m.h[v].negative
         THEN Bind(zz_set_i64(m, -1, q), LAMBDA a :
              IF a.ret # ZZ_OK THEN div_err(a, q, r)
              ELSE Bind(zz_add(a, u, v, r), LAMBDA b :
                   IF b.ret # ZZ_OK THEN div_err(b, q, r) ELSE Ret(b, ZZ_OK)))
         ELSE Bind(zz_set_i64(m, 0, q), LAMBDA a :
              IF a.ret # ZZ_OK THEN div_err(a, q, r)
              ELSE Bind(zz_pos(a, u, r), LAMBDA b :
                   IF b.ret # ZZ_OK THEN div_err(b, q, r) ELSE Ret(b, ZZ_OK)))
    ELSE IF u = q \/ u = r
    THEN Bind(zz_pos(zz_init(m, "div_u"), u, "div_u"), LAMBDA a :
         IF a.ret # ZZ_OK THEN Ret(zz_clear(a, "div_u"), ZZ_MEM)
         ELSE zz_clear(zz_div(a, "div_u", v, q, r), "div_u"))
    ELSE IF v = q \/ v = r
    THEN Bind(zz_pos(zz_init(m, "div_v"), v, "div_v"), LAMBDA a :
         IF a.ret # ZZ_OK THEN Ret(zz_clear(a, "div_v"), ZZ_MEM)
         ELSE zz_clear(zz_div(a, u, "div_v", q, r), "div_v"))
    ELSE zz_div_kernel(m, u, v, q, r)

(* the quotient part of zz_div_i64, lines 1415-1430 *)
zz_div_i64_q(m, u, v, q) ==
    IF m.h[u].size # 0
    THEN Bind(zz_resize(m, m.h[u].size, q), LAMBDA a :
         IF a.ret # ZZ_OK THEN Ret(a, ZZ_MEM)
         ELSE
         LET uv == ABS_CAST(v)
             same_signs == m.h[u].negative = (v < 0)
             u_size == m.h[u].size
             bad == Poisoned(a.h[u].digits, u_size)
             U == Mag(a.h[u].digits, u_size)
             (* mpn_divrem_1, then mpn_add_1 *)
             rl == IF bad THEN Uninit ELSE U % uv
             Q == (U \div uv) + (IF rl # 0 /\ ~same_signs THEN 1 ELSE 0)
         IN Bind(DropTopZero(PutDigits(a, q, 0, KOut(Q, u_size, bad)), q), LAMBDA b :
            Ret(SETNEG(b, IF b.h[q].size # 0 THEN ~same_signs ELSE FALSE, q), ZZ_OK)))
    ELSE zz_set_i32(m, 0, q)

(* the remainder part of zz_div_i64, lines 1431-1453 *)
zz_div_i64_r(a, uv, same_signs, u, v, r) ==
    IF a.h[u].size = 0 THEN zz_set_i32(a, 0, r)
    ELSE
    Bind(zz_resize(a, 1, r), LAMBDA b :
    IF b.ret # ZZ_OK THEN Ret(b, ZZ_MEM)
    ELSE
    LET u_size == a.h[u].size
        bad == Poisoned(b.h[u].digits, u_size)
        (* mpn_mod_1 *)
        rl == IF bad THEN Uninit ELSE Mag(b.h[u].digits, u_size) % uv
    IN IF rl = 0
       THEN Ret(zz_set_i32(b, 0, r), ZZ_OK)
       ELSE Ret(SETNEG(SetDigit(b, r, 1,
                                IF bad THEN Uninit
                                ELSE IF ~same_signs THEN WrapU64(uv - rl) ELSE rl),
                       v < 0, r), ZZ_OK))

zz_div_i64(m, u, v, q, r) ==
    IF v = 0 THEN Ret(m, ZZ_VAL)
    ELSE
    Bind(IF q # NULL THEN zz_div_i64_q(m, u, v, q) ELSE Ret(m, ZZ_OK), LAMBDA a :
    IF q # NULL /\ a.ret # ZZ_OK THEN Ret(a, ZZ_MEM)
    ELSE IF r = NULL THEN Ret(a, ZZ_OK)
    ELSE zz_div_i64_r(a, ABS_CAST(v), m.h[u].negative = (v < 0), u, v, r))

(* C's a/b and a%b: the quotient truncated toward zero.  For b = 0 the
   value is the one a non-faulting division instruction leaves (quotient 0) *)
TDiv(a, b) ==
    LET aa == IF a < 0 THEN 0 - a ELSE a
        ab == IF b < 0 THEN 0 - b ELSE b
    IN IF b = 0 THEN 0
       ELSE IF (a < 0) # (b < 0) THEN 0 - (aa \div ab) ELSE aa \div ab
TMod(a, b) == a - b * TDiv(a, b)

(* a/b is undefined behaviour (the quotient overflows int64_t, or b is 0): a
   trap on the targets where the division instruction faults, the wrapped
   quotient on the others *)
DivOverflows(a, b) == (a = INT64_MIN /\ b = -1) \/ b = 0

fdiv_r(a, b) ==
    WrapI64(WrapI64(TDiv(a, b))
            - (IF TMod(a, b) # 0 /\ (a < 0) # (b < 0) THEN 1 ELSE 0))

Trap(m) == [m EXCEPT !.trap = TRUE]

(* the quotient part of zz_i64_div, lines 1472-1484 *)
zz_i64_div_q(m, u, v, q) ==
    LET g == zz_get_i64(m.h[v])
    IN IF q = NULL THEN Ret(m, ZZ_OK)
       ELSE IF g.ret # ZZ_OK
       THEN zz_set_i64(m, IF (u < 0) = m.h[v].negative \/ u = 0 THEN 0 ELSE -1, q)
       ELSE IF DivOverflows(u, g.v) /\ m.ub = "trap" THEN Trap(m)
       ELSE zz_set_i64(m, fdiv_r(u, g.v), q)

(* the remainder part of zz_i64_div, lines 1485-1493 *)
zz_i64_div_r(a, u, v, r) ==
    LET g2 == zz_get_i64(a.h[v])
    IN IF g2.ret # ZZ_OK
       THEN IF (u < 0) = a.h[v].negative \/ u = 0
            THEN zz_set_i64(a, u, r)
            ELSE zz_add_i64(a, v, u, r)
       ELSE IF DivOverflows(u, g2.v) /\ a.ub = "trap" THEN Trap(a)
       ELSE zz_set_i64(a, WrapI64(u - WrapI64(fdiv_r(u, g2.v) * g2.v)), r)

(* zz_i64_div without the test of the divisor *)
zz_i64_div_unchecked(m, u, v, q, r) ==
    Bind(zz_i64_div_q(m, u, v, q), LAMBDA a :
    IF a.trap THEN a
    ELSE IF q # NULL /\ (a.ret # ZZ_OK \/ r = NULL) THEN a
    ELSE IF r = NULL THEN Ret(a, ZZ_OK)
    ELSE zz_i64_div_r(a, u, v, r))

zz_i64_div(m, u, v, q, r) ==
    IF m.h[v].size = 0 THEN Ret(m, ZZ_VAL)
    ELSE
    Bind(zz_i64_div_q(m, u, v, q), LAMBDA a :
    IF a.trap THEN a
    ELSE IF q # NULL /\ (a.ret # ZZ_OK \/ r = NULL) THEN a
    ELSE IF r = NULL THEN Ret(a, ZZ_OK)
    ELSE zz_i64_div_r(a, u, v, r))

-----------------------------------------------------------------------------
(* Comparison, lowest set bit, shifts *)

(* a comparison that looks at the lowest digit only *)
mpn_cmp_low(ud, vd, n) ==
    IF n = 0 \/ ud[1] = vd[1] THEN 0 ELSE IF ud[1] > vd[1] THEN 1 ELSE -1

(* mpn_cmp: from the most significant digit down *)
RECURSIVE mpn_cmp(_, _, _)
mpn_cmp(ud, vd, n) ==
    IF n = 0 THEN 0
    ELSE IF ud[n] # vd[n] THEN (IF ud[n] > vd[n] THEN 1 ELSE -1)
    ELSE mpn_cmp(ud, vd, n - 1)

(* u and v name the objects compared in the heap h *)
zz_cmp(h, u, v) ==
    IF u = v THEN ZZ_EQ
    ELSE
    LET u_negative == h[u].negative
        sign == IF u_negative THEN ZZ_LT ELSE ZZ_GT
    IN IF u_negative # h[v].negative THEN sign
       ELSE IF h[u].size # h[v].size
       THEN IF h[u].size < h[v].size THEN 0 - sign ELSE sign
       ELSE LET r == mpn_cmp(h[u].digits, h[v].digits, h[u].size)
            IN IF u_negative THEN 0 - r ELSE r

zz_cmp_i64(z, v) ==
    LET u_negative == z.negative
        sign == IF u_negative THEN ZZ_LT ELSE ZZ_GT
        v_negative == v < 0
    IN IF u_negative # v_negative THEN sign
       ELSE IF z.size # 1
       THEN IF z.size # 0 THEN sign ELSE IF v # 0 THEN 0 - sign ELSE ZZ_EQ
       ELSE LET digit == ABS_CAST(v)
                r == IF z.digits[1] < digit THEN ZZ_LT
                     ELSE IF z.digits[1] > digit THEN ZZ_GT ELSE ZZ_EQ
            IN IF u_negative THEN 0 - r ELSE r

RECURSIVE Lsb(_)
Lsb(x) == IF x <= 0 \/ x % 2 = 1 THEN 0 ELSE 1 + Lsb(x \div 2)

zz_lsbpos(z) == IF z.size # 0 THEN Lsb(Mag(z.digits, z.size)) ELSE 0

MIN(a, b) == IF a < b THEN a ELSE b
MAX(a, b) == IF a >= b THEN a ELSE b

(* a shift that never rounds *)
quo_2exp_nocarry(z, whole, shift) == FALSE

(* carry of zz_quo_2exp: u is negative and a whole digit or a bit that is
   shifted out is nonzero (the two places that set carry = ISNEG(u)) *)
quo_2exp_carry(z, whole, shift) ==
    /\ z.negative
    /\ \/ \E i \in 1 .. whole : z.digits[i] # 0
       \/ shift # 0 /\ z.digits[whole + 1] % (2 ^ shift) # 0

zz_quo_2exp(m, u, shift0, v) ==
    IF m.h[u].size = 0 THEN zz_set_i32(m, 0, v)
    ELSE IF shift0 >= m.h[u].size * ZZ_DIGIT_T_BITS
    THEN zz_set_i64(m, IF m.h[u].negative THEN -1 ELSE 0, v)
    ELSE
    LET whole == shift0 \div ZZ_DIGIT_T_BITS
        size == m.h[u].size - whole
        shift == shift0 % ZZ_DIGIT_T_BITS
        carry == quo_2exp_carry(m.h[u], whole, shift)
        extra == \A i \in (whole + 1) .. m.h[u].size : m.h[u].digits[i] = ZZ_DIGIT_T_MAX
    IN Bind(zz_resize(m, size + (IF extra THEN 1 ELSE 0), v), LAMBDA a :
       IF a.ret # ZZ_OK THEN Ret(a, ZZ_MEM)
       ELSE
       Bind(SETNEG(a, a.h[u].negative, v), LAMBDA b :
       LET src == SubSeq(b.h[u].digits, whole + 1, whole + size)
           bad == Poisoned(src, size)
           X == Mag(src, size)
           Y == (X \div (2 ^ shift)) + (IF carry THEN 1 ELSE 0)
       IN Bind(PutDigits(b, v, 0, KOut(Y, size, bad)), LAMBDA c :
          Ret(zz_normalize(
                  IF extra
                  THEN SetDigit(c, v, size + 1,
                                IF bad THEN Uninit ELSE IF Y >= B ^ size THEN 1 ELSE 0)
                  ELSE c,
                  v),
              ZZ_OK))))

(* low digits that keep what the cells held *)
mpn_zero_skip(m, v, n) == m

(* mpn_zero(v->digits, n) *)
mpn_zero(m, v, n) ==
    PutDigits(m, v, 0, Arr([i \in 1 .. n |-> 0]))

zz_mul_2exp(m, u, shift0, v) ==
    IF m.h[u].size = 0 THEN zz_set_i32(m, 0, v)
    ELSE IF shift0 > ZZ_BITS_MAX THEN Ret(m, ZZ_BUF)
    ELSE
    LET whole == shift0 \div ZZ_DIGIT_T_BITS
        u_size == m.h[u].size
        shift == shift0 % ZZ_DIGIT_T_BITS
        v_size == u_size + whole + (IF shift # 0 THEN 1 ELSE 0)
    IN IF v_size > ZZ_DIGITS_MAX THEN Ret(m, ZZ_BUF)
       ELSE
       Bind(zz_resize(m, v_size, v), LAMBDA a :
       IF a.ret # ZZ_OK THEN Ret(a, ZZ_MEM)
       ELSE
       Bind(SETNEG(a, a.h[u].negative, v), LAMBDA b :
       LET src == SubSeq(b.h[u].digits, 1, u_size)
           bad == Poisoned(src, u_size)
           X == Mag(src, u_size) * 2 ^ shift
           top == IF bad THEN Uninit ELSE X \div B ^ u_size
       IN Bind(PutDigits(b, v, whole, KOut(X, u_size, bad)), LAMBDA c :
          Bind(IF shift # 0
               THEN IF top = 0
                    THEN SETSIZE(SetDigit(c, v, v_size, top), v_size - 1, v)
                    ELSE SetDigit(c, v, v_size, top)
               ELSE c, LAMBDA d :
          Ret(mpn_zero(d, v, whole), ZZ_OK)))))

-----------------------------------------------------------------------------
(* Bitwise operations *)

(* one bit of a digit-wise logical kernel *)
BitOf(op, a, b) ==
    CASE op = "and" -> IF a = 1 /\ b = 1 THEN 1 ELSE 0
      [] op = "ior" -> IF a = 1 \/ b = 1 THEN 1 ELSE 0
      [] op = "xor" -> IF a # b THEN 1 ELSE 0
      [] op = "andn" -> IF a = 1 /\ b = 0 THEN 1 ELSE 0

(* mpn_and_n, mpn_ior_n, mpn_xor_n and mpn_andn_n on two magnitudes *)
RECURSIVE BitOp(_, _, _)
BitOp(op, a, b) ==
    IF a <= 0 /\ b <= 0 THEN 0
    ELSE BitOf(op, a % 2, b % 2) + 2 * BitOp(op, a \div 2, b \div 2)

(* mpn_<op>_n(w->digits, u->digits, v->digits, n) *)
bit_low(c, w, u, v, n, op) ==
    PutDigits(c, w, 0,
              KOut(BitOp(op, Mag(c.h[u].digits, n), Mag(c.h[v].digits, n)), n,
                   Poisoned(c.h[u].digits, n) \/ Poisoned(c.h[v].digits, n)))

(* mpn_copyi(&w->digits[from], &u->digits[from], to - from) *)
bit_high(c, w, u, from, to) ==
    PutDigits(c, w, from, SubSeq(c.h[u].digits, from + 1, to))

(* an increment whose carry is dropped *)
bit_inc_nocarry(c, w, n) ==
    SetDigit(PutDigits(c, w, 0, KOut(Mag(c.h[w].digits, n) + 1, n, FALSE)), w, n + 1, 0)

(* w->digits[n] = mpn_add_1(w->digits, w->digits, n, 1) *)
bit_inc(c, w, n) ==
    LET bad == Poisoned(c.h[w].digits, n)
        X == Mag(c.h[w].digits, n) + 1
    IN SetDigit(PutDigits(c, w, 0, KOut(X, n, bad)), w, n + 1,
                IF bad THEN Uninit ELSE X \div B ^ n)

zz_invert(m, u, v) ==
    LET u_size == m.h[u].size
    IN IF m.h[u].negative
       THEN Bind(zz_resize(m, u_size, v), LAMBDA a :
            IF a.ret # ZZ_OK THEN Ret(a, ZZ_MEM)
            ELSE (* mpn_sub_1 *)
            Bind(DropTopZero(
                     PutDigits(a, v, 0,
                               KOut(Mag(a.h[u].digits, u_size) - 1, u_size,
                                    Poisoned(a.h[u].digits, u_size))), v), LAMBDA b :
            Ret(SETNEG(b, ~b.h[u].negative, v), ZZ_OK)))
       ELSE IF u_size = 0 THEN zz_set_i64(m, -1, v)
       ELSE IF u_size = ZZ_DIGITS_MAX THEN Ret(m, ZZ_BUF)
       ELSE Bind(zz_resize(m, u_size + 1, v), LAMBDA a :
            IF a.ret # ZZ_OK THEN Ret(a, ZZ_MEM)
            ELSE (* mpn_add_1 from u into v, then its carry *)
            Bind(DropTopZero(
                     SetDigit(PutDigits(a, v, 0,
                                        KOut(Mag(a.h[u].digits, u_size) + 1, u_size,
                                             Poisoned(a.h[u].digits, u_size))),
                              v, u_size + 1,
                              IF Poisoned(a.h[u].digits, u_size) THEN Uninit
                              ELSE (Mag(a.h[u].digits, u_size) + 1) \div B ^ u_size),
                     v), LAMBDA b :
            Ret(SETNEG(b, ~b.h[u].negative, v), ZZ_OK)))

(* err: of zz_and, zz_or and zz_xor *)
bit_err(m) == zz_clear(zz_clear(m, "o2"), "o1")

(* the complements of the negative operands, in o1 and o2, marked negative *)
bit_prep(m, u, v) ==
    OrElse(IF m.h[u].negative
           THEN Bind(zz_invert(zz_init(zz_init(m, "o1"), "o2"), u, "o1"), LAMBDA a :
                IF a.ret # ZZ_OK THEN a ELSE SETNEG(a, TRUE, "o1"))
           ELSE zz_init(zz_init(m, "o1"), "o2"), LAMBDA b :
    IF m.h[v].negative
    THEN Bind(zz_invert(b, v, "o2"), LAMBDA c :
         IF c.ret # ZZ_OK THEN c ELSE SETNEG(c, TRUE, "o2"))
    ELSE b)

(* return ZZ_OK after zz_normalize(w), zz_clear(&o1), zz_clear(&o2) *)
bit_done(c, w) == Ret(bit_err(zz_normalize(c, w)), ZZ_OK)

(* zz_and with a negative operand; u is the longer of the prepared operands *)
zz_and_neg(a, u, v, u_size, v_size, w) ==
    IF a.h[u].negative /\ a.h[v].negative
    THEN IF u_size = 0 THEN zz_set_i64(bit_err(a), -1, w)
         ELSE IF u_size = ZZ_DIGITS_MAX THEN Ret(a, ZZ_BUF)
         ELSE Bind(zz_resize(a, u_size + 1, w), LAMBDA b :
              IF b.ret # ZZ_OK THEN bit_err(b)
              ELSE Bind(bit_high(SETNEG(b, TRUE, w), w, u, v_size, u_size), LAMBDA c :
                   Bind(IF v_size # 0 THEN bit_low(c, w, u, v, v_size, "ior") ELSE c,
                        LAMBDA d :
                   bit_done(bit_inc(d, w, u_size), w))))
    ELSE IF a.h[u].negative
    THEN Bind(zz_resize(a, v_size, w), LAMBDA b :
         IF b.ret # ZZ_OK THEN bit_err(b)
         ELSE bit_done(bit_low(SETNEG(b, FALSE, w), w, v, u, v_size, "andn"), w))
    ELSE Bind(zz_resize(a, u_size, w), LAMBDA b :
         IF b.ret # ZZ_OK THEN bit_err(b)
         ELSE Bind(IF v_size # 0
                   THEN bit_low(SETNEG(b, FALSE, w), w, u, v, v_size, "andn")
                   ELSE SETNEG(b, FALSE, w), LAMBDA c :
              bit_done(bit_high(c, w, u, v_size, u_size), w)))

(* the highest digit position at which u & v is nonzero, or 0 *)
RECURSIVE and_top(_, _, _)
and_top(ud, vd, i) ==
    IF i = 0 THEN 0
    ELSE IF BitOp("and", ud[i], vd[i]) # 0 THEN i
    ELSE and_top(ud, vd, i - 1)

(* zz_and of two positive operands; u is the longer one *)
zz_and_pos(m, u, v, v_size, w) ==
    Bind(SETNEG(m, FALSE, w), LAMBDA a :
    LET n == and_top(a.h[u].digits, a.h[v].digits, v_size)
    IN IF n # 0
       THEN Bind(zz_resize(a, n, w), LAMBDA b :
            IF b.ret # ZZ_OK THEN Ret(b, ZZ_MEM)
            ELSE Ret(zz_normalize(bit_low(b, w, u, v, n, "and"), w), ZZ_OK))
       ELSE Ret(SETSIZE(a, 0, w), ZZ_OK))

zz_and(m, u0, v0, w) ==
    IF m.h[u0].size = 0 \/ m.h[v0].size = 0 THEN zz_set_i64(m, 0, w)
    ELSE IF m.h[u0].negative \/ m.h[v0].negative
    THEN Bind(bit_prep(m, u0, v0), LAMBDA a :
         IF a.ret # ZZ_OK THEN bit_err(a)
         ELSE
         LET u1 == IF m.h[u0].negative THEN "o1" ELSE u0
             v1 == IF m.h[v0].negative THEN "o2" ELSE v0
             swap == a.h[u1].size < a.h[v1].size
         IN zz_and_neg(a, IF swap THEN v1 ELSE u1, IF swap THEN u1 ELSE v1,
                       MAX(a.h[u1].size, a.h[v1].size),
                       MIN(a.h[u1].size, a.h[v1].size), w))
    ELSE LET swap == m.h[u0].size < m.h[v0].size
         IN zz_and_pos(m, IF swap THEN v0 ELSE u0, IF swap THEN u0 ELSE v0,
                       MIN(m.h[u0].size, m.h[v0].size), w)

(* zz_or with a negative operand; u is the longer of the prepared operands *)
zz_or_neg(a, u, v, u_size, v_size, w) ==
    IF a.h[u].negative /\ a.h[v].negative
    THEN IF v_size = 0 THEN zz_set_i64(bit_err(a), -1, w)
         ELSE IF v_size = ZZ_DIGITS_MAX THEN Ret(a, ZZ_BUF)
         ELSE Bind(zz_resize(a, v_size + 1, w), LAMBDA b :
              IF b.ret # ZZ_OK THEN bit_err(b)
              ELSE bit_done(bit_inc(bit_low(SETNEG(b, TRUE, w), w, u, v, v_size, "and"),
                                    w, v_size), w))
    ELSE IF a.h[u].negative
    THEN IF u_size = ZZ_DIGITS_MAX THEN Ret(a, ZZ_BUF)
         ELSE Bind(zz_resize(a, u_size + 1, w), LAMBDA b :
              IF b.ret # ZZ_OK THEN bit_err(b)
              ELSE Bind(bit_high(SETNEG(b, TRUE, w), w, u, v_size, u_size), LAMBDA c :
                   bit_done(bit_inc(bit_low(c, w, u, v, v_size, "andn"), w, u_size), w)))
    ELSE IF v_size = ZZ_DIGITS_MAX THEN Ret(a, ZZ_BUF)
         ELSE Bind(zz_resize(a, v_size + 1, w), LAMBDA b :
              IF b.ret # ZZ_OK THEN bit_err(b)
              ELSE IF v_size # 0
              THEN bit_done(bit_inc(bit_low(SETNEG(b, TRUE, w), w, v, u, v_size, "andn"),
                                    w, v_size), w)
              ELSE Ret(bit_err(SetDigit(SETNEG(b, TRUE, w), w, 1, 1)), ZZ_OK))

(* zz_or of two positive operands; u is the longer one *)
zz_or_pos(m, u, v, u_size, v_size, w) ==
    Bind(zz_resize(m, u_size, w), LAMBDA b :
    IF b.ret # ZZ_OK THEN Ret(b, ZZ_MEM)
    ELSE Bind(bit_low(SETNEG(b, FALSE, w), w, u, v, v_size, "ior"), LAMBDA c :
         Ret(IF u_size # v_size THEN bit_high(c, w, u, v_size, u_size) ELSE c, ZZ_OK)))

zz_or(m, u0, v0, w) ==
    IF m.h[u0].size = 0 THEN zz_pos(m, v0, w)
    ELSE IF m.h[v0].size = 0 THEN zz_pos(m, u0, w)
    ELSE IF m.h[u0].negative \/ m.h[v0].negative
    THEN Bind(bit_prep(m, u0, v0), LAMBDA a :
         IF a.ret # ZZ_OK THEN bit_err(a)
         ELSE
         LET u1 == IF m.h[u0].negative THEN "o1" ELSE u0
             v1 == IF m.h[v0].negative THEN "o2" ELSE v0
             swap == a.h[u1].size < a.h[v1].size
         IN zz_or_neg(a, IF swap THEN v1 ELSE u1, IF swap THEN u1 ELSE v1,
                      MAX(a.h[u1].size, a.h[v1].size),
                      MIN(a.h[u1].size, a.h[v1].size), w))
    ELSE LET swap == m.h[u0].size < m.h[v0].size
         IN zz_or_pos(m, IF swap THEN v0 ELSE u0, IF swap THEN u0 ELSE v0,
                      MAX(m.h[u0].size, m.h[v0].size),
                      MIN(m.h[u0].size, m.h[v0].size), w)

(* zz_xor with a negative operand; u is the longer of the prepared operands *)
zz_xor_neg(a, u, v, u_size, v_size, w) ==
    IF a.h[u].negative /\ a.h[v].negative
    THEN IF u_size = 0 THEN zz_set_i64(bit_err(a), 0, w)
         ELSE Bind(zz_resize(a, u_size, w), LAMBDA b :
              IF b.ret # ZZ_OK THEN bit_err(b)
              ELSE Bind(bit_high(SETNEG(b, FALSE, w), w, u, v_size, u_size), LAMBDA c :
                   bit_done(IF v_size # 0 THEN bit_low(c, w, u, v, v_size, "xor") ELSE c,
                            w)))
    ELSE IF u_size = ZZ_DIGITS_MAX THEN Ret(a, ZZ_BUF)
         ELSE Bind(zz_resize(a, u_size + 1, w), LAMBDA b :
              IF b.ret # ZZ_OK THEN bit_err(b)
              ELSE Bind(bit_high(SETNEG(b, TRUE, w), w, u, v_size, u_size), LAMBDA c :
                   Bind(IF a.h[u].negative \/ v_size # 0
                        THEN bit_low(c, w, u, v, v_size, "xor") ELSE c, LAMBDA d :
                   bit_done(bit_inc(d, w, u_size), w))))

(* zz_xor of two positive operands; u is the longer one *)
zz_xor_pos(m, u, v, u_size, v_size, w) ==
    Bind(zz_resize(m, u_size, w), LAMBDA b :
    IF b.ret # ZZ_OK THEN Ret(b, ZZ_MEM)
    ELSE Bind(bit_low(SETNEG(b, FALSE, w), w, u, v, v_size, "xor"), LAMBDA c :
         Ret(IF u_size # v_size THEN bit_high(c, w, u, v_size, u_size)
             ELSE zz_normalize(c, w), ZZ_OK)))

zz_xor(m, u0, v0, w) ==
    IF m.h[u0].size = 0 THEN zz_pos(m, v0, w)
    ELSE IF m.h[v0].size = 0 THEN zz_pos(m, u0, w)
    ELSE IF m.h[u0].negative \/ m.h[v0].negative
    THEN Bind(bit_prep(m, u0, v0), LAMBDA a :
         IF a.ret # ZZ_OK THEN bit_err(a)
         ELSE
         LET u1 == IF m.h[u0].negative THEN "o1" ELSE u0
             v1 == IF m.h[v0].negative THEN "o2" ELSE v0
             swap == a.h[u1].size < a.h[v1].size
         IN zz_xor_neg(a, IF swap THEN v1 ELSE u1, IF swap THEN u1 ELSE v1,
                       MAX(a.h[u1].size, a.h[v1].size),
                       MIN(a.h[u1].size, a.h[v1].size), w))
    ELSE LET swap == m.h[u0].size < m.h[v0].size
         IN zz_xor_pos(m, IF swap THEN v0 ELSE u0, IF swap THEN u0 ELSE v0,
                       MAX(m.h[u0].size, m.h[v0].size),
                       MIN(m.h[u0].size, m.h[v0].size), w)

-----------------------------------------------------------------------------
(* Greatest common divisor *)

RECURSIVE GCD(_, _)
GCD(a, b) == IF b = 0 THEN a ELSE GCD(b, a % b)

(* n successive malloc calls whose results are tested together *)
MallocFails(m, n) == m.fail >= 1 /\ m.fail <= n
TickN(m, n) == [m EXCEPT !.fail = IF @ > n THEN @ - n ELSE 0]

gcd_clear(m) == Ret(zz_clear(zz_clear(m, "o1"), "o2"), ZZ_MEM)

(* zz_gcd from the mpn_gcd call on: lines 2056-2066 *)
zz_gcd_kernel(c, w, shift) ==
    LET un == c.h["o1"].size
        vn == c.h["o2"].size
        bad == \/ Poisoned(c.h["o1"].digits, un)
               \/ Poisoned(c.h["o2"].digits, vn)
               \/ un < vn
        G == IF bad THEN 0
             ELSE GCD(Mag(c.h["o1"].digits, un), Mag(c.h["o2"].digits, vn))
    IN Bind(IF vn = 1
            THEN (* mpn_gcd_1 takes no scratch *)
                 PutDigits(c, w, 0, KOut(G, 1, bad))
            ELSE SETSIZE(PutDigits(Tick(c), w, 0, KOut(G, NDigits(G), bad)),
                         IF bad THEN vn ELSE NDigits(G), w), LAMBDA d :
       zz_mul_2exp(zz_clear(zz_clear(SETNEG(d, FALSE, w), "o1"), "o2"), w, shift, w))

zz_gcd(m, u0, v0, w) ==
    LET swap == m.h[u0].size < m.h[v0].size
        u == IF swap THEN v0 ELSE u0
        v == IF swap THEN u0 ELSE v0
        shift == MIN(zz_lsbpos(m.h[u]), zz_lsbpos(m.h[v]))
    IN IF m.h[v].size = 0 THEN zz_abs(m, u, w)
       ELSE IF MallocFails(m, 2) THEN Ret(TickN(m, 2), ZZ_MEM)
       ELSE
       Bind(OrElse(zz_abs(zz_init(zz_init(TickN(m, 2), "o1"), "o2"), u, "o1"), LAMBDA a1 :
            OrElse(zz_abs(a1, v, "o2"), LAMBDA a :
            OrElse(IF shift = 0 THEN a ELSE zz_quo_2exp(a, "o1", shift, "o1"), LAMBDA b1 :
            OrElse(IF shift = 0 THEN b1 ELSE zz_quo_2exp(b1, "o2", shift, "o2"), LAMBDA b :
            zz_resize(b, b.h["o2"].size, w))))), LAMBDA c :
       IF c.ret # ZZ_OK THEN gcd_clear(c)
       ELSE IF c.h["o2"].size > 1 /\ AllocFails(c)
       THEN (* TMP_OVERFLOW *) gcd_clear(Tick(c))
       ELSE zz_gcd_kernel(c, w, shift))

ie_clear2(m) ==
    Ret(zz_clear(zz_clear(zz_clear(zz_clear(zz_clear(zz_clear(m,
        "ie_r"), "ie_newt"), "ie_newr"), "ie_q"), "ie_t1"), "ie_t2"), ZZ_MEM)

(* the while loop of zz_inverse_euclidext; a failed call leaves ret # ZZ_OK *)
RECURSIVE ie_loop(_, _)
ie_loop(m, t) ==
    IF zz_cmp_i64(m.h["ie_newr"], 0) = ZZ_EQ THEN Ret(m, ZZ_OK)
    ELSE
    OrElse(zz_div(m, "ie_r", "ie_newr", "ie_q", NULL), LAMBDA x1 :
    OrElse(zz_pos(x1, "ie_newt", "ie_t1"), LAMBDA x2 :
    OrElse(zz_mul(x2, "ie_q", "ie_newt", "ie_t2"), LAMBDA x3 :
    OrElse(zz_sub(x3, t, "ie_t2", "ie_newt"), LAMBDA x4 :
    OrElse(zz_pos(x4, "ie_t1", t), LAMBDA x5 :
    OrElse(zz_pos(x5, "ie_newr", "ie_t1"), LAMBDA x6 :
    OrElse(zz_mul(x6, "ie_q", "ie_newr", "ie_t2"), LAMBDA x7 :
    OrElse(zz_sub(x7, "ie_r", "ie_t2", "ie_newr"), LAMBDA x8 :
    OrElse(zz_pos(x8, "ie_t1", "ie_r"), LAMBDA x9 :
    ie_loop(x9, t))))))))))

(* zz_inverse_euclidext after its loop: lines 2107-2120 *)
ie_finish(b, u_neg, t) ==
    Bind(zz_clear(zz_clear(zz_clear(zz_clear(zz_clear(b,
             "ie_newt"), "ie_newr"), "ie_q"), "ie_t1"), "ie_t2"), LAMBDA c :
    Bind(zz_abs(IF c.h[t].size # 0 THEN SETNEG(c, c.h[t].negative # u_neg, t) ELSE c,
                "ie_r", "ie_r"), LAMBDA e :
    IF zz_cmp_i64(e.h["ie_r"], 1) # ZZ_EQ
    THEN Ret(zz_clear(e, "ie_r"), ZZ_VAL)
    ELSE Ret(zz_clear(e, "ie_r"), ZZ_OK)))

zz_inverse_euclidext(m, u, v, t) ==
    Bind(OrElse(zz_pos(zz_init(zz_init(zz_init(zz_init(zz_init(zz_init(m,
                    "ie_r"), "ie_newt"), "ie_newr"), "ie_q"), "ie_t1"), "ie_t2"),
                    v, "ie_r"), LAMBDA x1 :
         OrElse(zz_set_i32(x1, 1, "ie_newt"), LAMBDA x2 :
         OrElse(zz_pos(x2, u, "ie_newr"), LAMBDA x3 :
         OrElse(zz_set_i32(x3, 0, t), LAMBDA x4 :
         ie_loop(x4, t))))), LAMBDA b :
    IF b.ret # ZZ_OK THEN ie_clear2(b)
    ELSE ie_finish(b, m.h[u].negative, t))

(* the cofactor mpn_gcdext returns for U >= 1, V >= 1: 0 if V divides U,
   1 if V = 2G, else the S with U * S = G (mod V) and |S| < V / (2G) *)
GcdextS(U, V) ==
    LET G == GCD(U, V)
        u1 == U \div G
        v1 == V \div G
    IN IF v1 = 1 THEN 0
       ELSE IF v1 = 2 THEN 1
       ELSE CHOOSE S \in (0 - (v1 \div 2)) .. (v1 \div 2) :
                /\ (u1 * S - 1) % v1 = 0
                /\ 2 * S < v1 /\ 0 - 2 * S < v1

gcdext_clear(m) ==
    Ret(zz_clear(zz_clear(zz_clear(zz_clear(m, "o1"), "o2"), "tmp_g"), "tmp_s"), ZZ_MEM)

(* the cofactor t of zz_gcdext: lines 2196-2215 *)
zz_gcdext_t(d, u, v, t) ==
    IF t = NULL THEN Ret(d, ZZ_OK)
    ELSE IF MAX(d.h[u].size + d.h["tmp_s"].size, d.h["tmp_g"].size) < ZZ_DIGITS_MAX
    THEN OrElse(zz_mul(d, u, "tmp_s", "o2"), LAMBDA x1 :
         OrElse(zz_sub(x1, "tmp_g", "o2", "o2"), LAMBDA x2 :
         zz_div(x2, "o2", v, t, NULL)))
    ELSE OrElse(zz_div(d, u, "tmp_g", "o1", NULL), LAMBDA x1 :
         OrElse(zz_div(x1, v, "tmp_g", "o2", NULL), LAMBDA x2 :
         zz_inverse_euclidext(x2, "o2", "o1", t)))

(* the outputs of zz_gcdext: lines 2216-2232; o1 and o2 are NULL by then,
   and the label clear starts with zz_clear(o1), which reads o1->digits *)
zz_gcdext_out(e, g, s) ==
    Bind(OrElse(IF s # NULL
                THEN zz_pos(zz_clear(zz_clear(e, "o1"), "o2"), "tmp_s", s)
                ELSE Ret(zz_clear(zz_clear(e, "o1"), "o2"), ZZ_OK), LAMBDA h :
         IF g # NULL THEN zz_pos(h, "tmp_g", g) ELSE h), LAMBDA k :
    IF k.ret # ZZ_OK THEN Trap(Ret(k, ZZ_MEM))
    ELSE Ret(zz_clear(zz_clear(k, "tmp_s"), "tmp_g"), ZZ_OK))

(* zz_gcdext from the mpn_gcdext call on: lines 2182-2232 *)
zz_gcdext_kernel(m, u, v, g, s, t) ==
    LET un == m.h[u].size
        vn == m.h[v].size
        bad == \/ Poisoned(m.h["o1"].digits, un)
               \/ Poisoned(m.h["o2"].digits, vn)
               \/ m.h["o2"].digits[vn] = 0
        U == IF bad THEN 1 ELSE Mag(m.h["o1"].digits, un)
        V == IF bad THEN 1 ELSE Mag(m.h["o2"].digits, vn)
        G == GCD(U, V)
        S == GcdextS(U, V)
        absS == IF S < 0 THEN 0 - S ELSE S
        gn == IF bad THEN vn ELSE NDigits(G)
    IN (* the kernel destroys its two source operands *)
       Bind(zz_resize(
                SETNEG(SETSIZE(PutDigits(
                    PutDigits(PutDigits(Tick(m), "o1", 0, [i \in 1 .. un |-> Uninit]),
                              "o2", 0, [i \in 1 .. vn |-> Uninit]),
                    "tmp_g", 0, KOut(G, gn, bad)), gn, "tmp_g"), FALSE, "tmp_g"),
                NDigits(absS), "tmp_s"), LAMBDA c :
       IF c.ret # ZZ_OK THEN gcdext_clear(c)
       ELSE
       Bind(zz_gcdext_t(
                SETNEG(PutDigits(c, "tmp_s", 0, KOut(absS, NDigits(absS), bad)),
                       (c.h[u].negative /\ S > 0) \/ (~c.h[u].negative /\ S < 0),
                       "tmp_s"),
                u, v, t), LAMBDA e :
       IF e.ret # ZZ_OK THEN gcdext_clear(e)
       ELSE zz_gcdext_out(e, g, s)))

(* zz_gcdext when the shorter operand is zero: lines 2142-2159 *)
zz_gcdext_zero(m, u, g, s, t) ==
    Bind(IF g # NULL THEN zz_abs(m, u, g) ELSE Ret(m, ZZ_OK), LAMBDA a :
    IF a.ret # ZZ_OK THEN Ret(a, ZZ_MEM)
    ELSE
    Bind(IF s # NULL THEN zz_set_i64(a, IF a.h[u].negative THEN -1 ELSE 1, s) ELSE a,
         LAMBDA b :
    IF b.ret # ZZ_OK THEN Ret(b, ZZ_MEM)
    ELSE
    Bind(IF s # NULL THEN SETSIZE(b, IF b.h[u].size > 0 THEN 1 ELSE 0, s) ELSE b,
         LAMBDA c :
    Ret(IF t # NULL THEN SETNEG(SETSIZE(c, 0, t), FALSE, t) ELSE c, ZZ_OK))))

zz_gcdext(m, u0, v0, g, s0, t0) ==
    IF s0 = NULL /\ t0 = NULL
    THEN IF g = NULL THEN Ret(m, ZZ_OK) ELSE zz_gcd(m, u0, v0, g)
    ELSE
    LET swap == m.h[u0].size < m.h[v0].size
        u == IF swap THEN v0 ELSE u0
        v == IF swap THEN u0 ELSE v0
        s == IF swap THEN t0 ELSE s0
        t == IF swap THEN s0 ELSE t0
    IN IF m.h[v].size = 0 THEN zz_gcdext_zero(m, u, g, s, t)
       ELSE IF MallocFails(m, 5) THEN Ret(TickN(m, 5), ZZ_MEM)
       ELSE
       Bind(OrElse(zz_pos(zz_init(zz_init(zz_init(zz_init(TickN(m, 5),
                       "o1"), "o2"), "tmp_g"), "tmp_s"), u, "o1"), LAMBDA x1 :
            OrElse(zz_pos(x1, v, "o2"), LAMBDA x2 :
            zz_resize(x2, x2.h[v].size, "tmp_g"))), LAMBDA a :
       IF a.ret # ZZ_OK THEN gcdext_clear(a)
       ELSE IF AllocFails(a) THEN (* TMP_OVERFLOW *) gcdext_clear(Tick(a))
       ELSE zz_gcdext_kernel(a, u, v, g, s, t))

-----------------------------------------------------------------------------
(* Square root *)

(* the root mpn_sqrtrem stores: the largest r with r * r <= x *)
Isqrt(x) == CHOOSE r \in 0 .. x : r * r <= x /\ (r + 1) * (r + 1) > x

(* the remainder is stored without its leading zeros; the rest of the
   kernel's remainder area holds what the kernel left there *)
sqrt_rem_skip(R, n, bad) == Arr([i \in 1 .. n |-> Uninit])

sqrt_rem(R, n, bad) ==
    Arr([i \in 1 .. n |-> IF bad \/ i > NDigits(R) THEN Uninit
                          ELSE (R \div B ^ (i - 1)) % B])

(* zz_sqrtrem from zz_resize((u->size + 1)/2, v) on; u is not v *)
sqrtrem_kernel(m, u, v, w) ==
    LET n == m.h[u].size
        bad == Poisoned(m.h[u].digits, n)
        U == Mag(m.h[u].digits, n)
        root == IF bad THEN 0 ELSE Isqrt(U)
    IN Bind(zz_resize(m, (n + 1) \div 2, v), LAMBDA a :
       IF a.ret # ZZ_OK THEN Ret(a, ZZ_MEM)
       ELSE IF AllocFails(a)
       THEN (* TMP_OVERFLOW *) Ret(KernelEscape(a, v, root, (n + 1) \div 2), ZZ_MEM)
       ELSE IF w # NULL
       THEN Bind(zz_resize(SETNEG(a, FALSE, w), n, w), LAMBDA b :
            IF b.ret # ZZ_OK THEN Ret(b, ZZ_MEM)
            ELSE Ret(SETSIZE(PutDigits(PutDigits(b, v, 0, KOut(root, (n + 1) \div 2, bad)),
                                       w, 0, sqrt_rem(U - root * root, n, bad)),
                             IF bad THEN n ELSE NDigits(U - root * root), w), ZZ_OK))
       ELSE Ret(PutDigits(a, v, 0, KOut(root, (n + 1) \div 2, bad)), ZZ_OK))

(* zz_sqrtrem for u other than v *)
zz_sqrtrem_distinct(m, u, v, w) ==
    IF m.h[u].negative THEN Ret(m, ZZ_VAL)
    ELSE Bind(SETNEG(m, FALSE, v), LAMBDA a :
         IF a.h[u].size = 0
         THEN Ret(IF w # NULL THEN SETNEG(SETSIZE(SETSIZE(a, 0, v), 0, w), FALSE, w)
                  ELSE SETSIZE(a, 0, v), ZZ_OK)
         ELSE sqrtrem_kernel(a, u, v, w))

zz_sqrtrem(m, u, v, w) ==
    IF m.h[u].negative THEN Ret(m, ZZ_VAL)
    ELSE Bind(SETNEG(m, FALSE, v), LAMBDA a :
         IF a.h[u].size = 0
         THEN Ret(IF w # NULL THEN SETNEG(SETSIZE(SETSIZE(a, 0, v), 0, w), FALSE, w)
                  ELSE SETSIZE(a, 0, v), ZZ_OK)
         ELSE IF u = v
         THEN Bind(zz_pos(zz_init(a, "sqrt_tmp"), v, "sqrt_tmp"), LAMBDA b :
              IF b.ret # ZZ_OK THEN Ret(zz_clear(b, "sqrt_tmp"), ZZ_MEM)
              ELSE Bind(zz_sqrtrem_distinct(b, "sqrt_tmp", v, w), LAMBDA c :
                   Ret(zz_clear(c, "sqrt_tmp"), c.ret)))
         ELSE sqrtrem_kernel(a, u, v, w))

-----------------------------------------------------------------------------
(* Power *)

(* SETNEG(ISNEG(u) && v%2, w) *)
pow_negative(neg, v) == neg /\ v % 2 = 1

(* zz_pow for u other than w *)
zz_pow_distinct(m, u, v, w) ==
    IF v = 0 THEN zz_set_i64(m, 1, w)
    ELSE IF m.h[u].size = 0 THEN zz_set_i64(m, 0, w)
    ELSE IF zz_cmp_i64(m.h[u], 1) = ZZ_EQ THEN zz_set_i64(m, 1, w)
    ELSE IF v > ZZ_DIGITS_MAX \div m.h[u].size THEN Ret(m, ZZ_BUF)
    ELSE IF AllocFails(m) THEN (* tmp *) Ret(zz_clear(Tick(m), w), ZZ_MEM)
    ELSE Bind(zz_resize(Tick(m), v * m.h[u].size, w), LAMBDA a :
         IF a.ret # ZZ_OK THEN Ret(zz_clear(a, w), ZZ_MEM)
         ELSE
         LET bad == Poisoned(a.h[u].digits, a.h[u].size)
             P == IF bad THEN 0 ELSE Mag(a.h[u].digits, a.h[u].size) ^ v
             n == IF bad THEN v * m.h[u].size ELSE NDigits(P)
         IN (* mpn_pow_1, then zz_resize(w->size, w) *)
            Bind(SETSIZE(PutDigits(SETNEG(a, pow_negative(a.h[u].negative, v), w),
                                   w, 0, KOut(P, n, bad)), n, w), LAMBDA b :
            zz_resize(b, n, w)))

zz_pow(m, u, v, w) ==
    IF u = w
    THEN Bind(zz_pos(zz_init(m, "pow_tmp"), u, "pow_tmp"), LAMBDA a :
         IF a.ret # ZZ_OK THEN Ret(zz_clear(a, "pow_tmp"), ZZ_MEM)
         ELSE Bind(zz_pow_distinct(a, "pow_tmp", v, w), LAMBDA b :
              Ret(zz_clear(b, "pow_tmp"), b.ret)))
    ELSE zz_pow_distinct(m, u, v, w)

-----------------------------------------------------------------------------
(* Modular power *)

(* the mpz_t Z copied into v *)
zz_set_mpz_t(m, Z, v) ==
    LET absZ == IF Z < 0 THEN 0 - Z ELSE Z
    IN Bind(zz_resize(m, NDigits(absZ), v), LAMBDA a :
       IF a.ret # ZZ_OK THEN Ret(a, ZZ_MEM)
       ELSE Ret(SETNEG(PutDigits(a, v, 0, ToDigits(absZ, NDigits(absZ))), Z < 0, v),
                ZZ_OK))

zz_inverse(m, u, v, w) ==
    Bind(zz_gcdext(zz_init(m, "inv_g"), u, v, "inv_g", w, NULL), LAMBDA a :
    IF a.ret # ZZ_OK THEN Ret(zz_clear(a, "inv_g"), ZZ_MEM)
    ELSE IF zz_cmp_i64(a.h["inv_g"], 1) = ZZ_EQ THEN Ret(zz_clear(a, "inv_g"), ZZ_OK)
    ELSE Ret(zz_clear(a, "inv_g"), ZZ_VAL))

(* mpz_powm: b^e modulo |m|, in 0 .. |m| - 1, for e >= 0 and m # 0 *)
RECURSIVE mpz_powm(_, _, _)
mpz_powm(b, e, m) ==
    IF e = 0 THEN 1 % (IF m < 0 THEN 0 - m ELSE m)
    ELSE (b * mpz_powm(b, e - 1, m)) % (IF m < 0 THEN 0 - m ELSE m)

(* mem: of zz_powm *)
powm_mem(m) == Ret(zz_clear(zz_clear(m, "powm_o1"), "powm_o2"), ZZ_MEM)

(* a result left in 0 .. |w| - 1 for a negative modulus *)
powm_adjust_skip(m, w, res) == m

(* ISNEG(w) && res->size && zz_add(w, res, res) *)
powm_adjust(m, w, res) ==
    IF m.h[w].negative /\ m.h[res].size # 0 THEN zz_add(m, w, res, res) ELSE m

(* zz_powm from TMP_MPZ on: u, v, w name the base, the exponent and the
   modulus in use *)
powm_kernel(m, u, v, w, res) ==
    IF AllocFails(m) THEN (* TMP_OVERFLOW *) Ret(Tick(m), ZZ_MEM)
    ELSE Bind(zz_set_mpz_t(m, mpz_powm(Val(m.h[u]), Val(m.h[v]), Val(m.h[w])), res),
              LAMBDA a :
         IF a.ret # ZZ_OK THEN powm_mem(a)
         ELSE Bind(powm_adjust(a, w, res), LAMBDA b :
              IF b.ret # ZZ_OK THEN powm_mem(b)
              ELSE Ret(zz_clear(zz_clear(b, "powm_o1"), "powm_o2"), ZZ_OK)))

(* zz_powm when res is none of u, v, w *)
zz_powm_distinct(m, u, v, w, res) ==
    IF m.h[w].size = 0 THEN Ret(m, ZZ_VAL)
    ELSE Bind(zz_init(zz_init(m, "powm_o1"), "powm_o2"), LAMBDA a :
         IF a.h[v].negative
         THEN Bind(zz_inverse(a, u, w, "powm_o2"), LAMBDA b :
              IF b.ret = ZZ_VAL
              THEN Ret(zz_clear(zz_clear(b, "powm_o1"), "powm_o2"), ZZ_VAL)
              ELSE IF b.ret = ZZ_MEM THEN powm_mem(b)
              ELSE Bind(zz_abs(b, v, "powm_o1"), LAMBDA c :
                   IF c.ret # ZZ_OK THEN powm_mem(c)
                   ELSE powm_kernel(c, "powm_o2", "powm_o1", w, res)))
         ELSE powm_kernel(a, u, v, w, res))

(* the copy of an operand that is res, in the order u, v, w *)
zz_powm_w(m, u, v, w, res) ==
    IF m.h[w].size = 0 THEN Ret(m, ZZ_VAL)
    ELSE IF w = res
    THEN Bind(zz_pos(zz_init(m, "powm_w"), w, "powm_w"), LAMBDA a :
         IF a.ret # ZZ_OK THEN Ret(zz_clear(a, "powm_w"), ZZ_MEM)
         ELSE Bind(zz_powm_distinct(a, u, v, "powm_w", res), LAMBDA b :
              Ret(zz_clear(b, "powm_w"), b.ret)))
    ELSE zz_powm_distinct(m, u, v, w, res)

zz_powm_v(m, u, v, w, res) ==
    IF m.h[w].size = 0 THEN Ret(m, ZZ_VAL)
    ELSE IF v = res
    THEN Bind(zz_pos(zz_init(m, "powm_v"), v, "powm_v"), LAMBDA a :
         IF a.ret # ZZ_OK THEN Ret(zz_clear(a, "powm_v"), ZZ_MEM)
         ELSE Bind(zz_powm_w(a, u, "powm_v", w, res), LAMBDA b :
              Ret(zz_clear(b, "powm_v"), b.ret)))
    ELSE zz_powm_w(m, u, v, w, res)

zz_powm(m, u, v, w, res) ==
    IF m.h[w].size = 0 THEN Ret(m, ZZ_VAL)
    ELSE IF u = res
    THEN Bind(zz_pos(zz_init(m, "powm_u"), u, "powm_u"), LAMBDA a :
         IF a.ret # ZZ_OK THEN Ret(zz_clear(a, "powm_u"), ZZ_MEM)
         ELSE Bind(zz_powm_v(a, "powm_u", v, w, res), LAMBDA b :
              Ret(zz_clear(b, "powm_u"), b.ret)))
    ELSE zz_powm_v(m, u, v, w, res)

-----------------------------------------------------------------------------
(* Import *)

(* the bits of a byte, scaled with the digit width *)
ByteBits == 1
ZZ_DIGIT_T_BYTES == ZZ_DIGIT_T_BITS \div ByteBits

native_layout == [bits_per_digit |-> ZZ_DIGIT_T_BITS, digit_size |-> ZZ_DIGIT_T_BYTES,
                  digits_order |-> -1, digit_endianness |-> 0]
byte_layout == [bits_per_digit |-> ByteBits, digit_size |-> 1,
                digits_order |-> 1, digit_endianness |-> 0]

(* the integer that len words of bits_per_digit bits stand for *)
RECURSIVE WordsValue(_, _, _, _)
WordsValue(data, len, bits, order) ==
    IF len = 0 THEN 0
    ELSE IF order = 1
         THEN data[len] + (2 ^ bits) * WordsValue(data, len - 1, bits, order)
         ELSE data[1] + (2 ^ bits) * WordsValue(Tail(data), len - 1, bits, order)

(* the len > SIZE_MAX / bits_per_digit and size > INT_MAX tests cannot
   succeed for the lengths used here and are left out *)
zz_import(m, len, data, layout, u) ==
    LET size == (len * layout.bits_per_digit + (ZZ_DIGIT_T_BITS - 1)) \div ZZ_DIGIT_T_BITS
        bad == Poisoned(data, len)
        X == IF bad THEN 0 ELSE WordsValue(data, len, layout.bits_per_digit, layout.digits_order)
        n == IF bad THEN size ELSE NDigits(X)
    IN Bind(zz_resize(m, size, u), LAMBDA a :
       IF a.ret # ZZ_OK THEN Ret(a, ZZ_MEM)
       ELSE IF layout.digit_size = 1 /\ layout.bits_per_digit = ByteBits
               /\ layout.digits_order = 1 /\ layout.digit_endianness = 0
       THEN (* mpn_set_str, then zz_normalize *)
            Ret(zz_normalize(SETSIZE(PutDigits(a, u, 0, KOut(X, n, bad)), n, u), u), ZZ_OK)
       ELSE (* mpz_import on the digits of u, then u->size = z->_mp_size *)
            Ret(SETSIZE(PutDigits(a, u, 0, KOut(X, size, bad)), n, u), ZZ_OK))

-----------------------------------------------------------------------------
(* Export *)

(* 30-bit digits in 4-byte words, least significant first, scaled with the
   digit width: words of a whole digit that carry half of its bits *)
pyint_layout == [bits_per_digit |-> ZZ_DIGIT_T_BITS \div 2, digit_size |-> ZZ_DIGIT_T_BYTES,
                 digits_order |-> -1, digit_endianness |-> 0]

RECURSIVE BitLen(_)
BitLen(x) == IF x <= 0 THEN 0 ELSE 1 + BitLen(x \div 2)

(* mpn_sizeinbase(u->digits, u->size, 2), or 0 *)
zz_bitlen(z) == IF z.size # 0 THEN BitLen(Mag(z.digits, z.size)) ELSE 0

(* the count words of bits bits that x is written in, in the given order *)
ExportWords(x, count, bits, order) ==
    Arr([i \in 1 .. count |->
            (x \div (2 ^ bits) ^ (IF order = 1 THEN count - i ELSE i - 1)) % (2 ^ bits)])

(* the kernel writes its words at the start of the buffer and nothing else *)
export_put(buf, len, ws) ==
    Arr([i \in 1 .. len |-> IF i <= Len(ws) THEN ws[i] ELSE buf[i]])

(* the buffer of len words after zz_export(u, layout, len, buf); mpn_get_str
   writes one zero byte for u->size == 0, past the buffer if len is 0 *)
zz_export(z, layout, len, buf) ==
    LET bits == layout.bits_per_digit
        need == (zz_bitlen(z) + bits - 1) \div bits
        x == Mag(z.digits, z.size)
    IN IF len < need THEN [ret |-> ZZ_BUF, data |-> buf, over |-> FALSE]
       ELSE IF layout.digit_size = 1 /\ layout.bits_per_digit = ByteBits
               /\ layout.digits_order = 1 /\ layout.digit_endianness = 0
       THEN [ret |-> ZZ_OK,
             data |-> export_put(buf, len, IF z.size = 0 THEN <<0>>
                                           ELSE ExportWords(x, need, bits, 1)),
             over |-> z.size = 0 /\ len = 0]
       ELSE [ret |-> ZZ_OK,
             data |-> export_put(buf, len, ExportWords(x, need, bits, layout.digits_order)),
             over |-> FALSE]

-----------------------------------------------------------------------------
(* The driver: a caller with the values x, y and z *)

User == {"x", "y", "z", "z2", "z3"}
Temps == {"str_buf", "mul_tmp", "div_q", "div_r", "div_u", "div_v", "o1", "o2", "tmp_g",
          "tmp_s", "ie_r", "ie_newt", "ie_newr", "ie_q", "ie_t1", "ie_t2",
          "sqrt_tmp", "pow_tmp", "inv_g", "powm_u", "powm_v", "powm_w",
          "powm_o1", "powm_o2"}
Slots == User \cup Temps

Values == (0 - (B ^ MaxDigits - 1)) .. (B ^ MaxDigits - 1)
(* what an output holds from an earlier call *)
OldValues == {0, 1, -5}

(* the machine state at a call: no allocation fails *)
M0(h) == [h |-> h, fail |-> 0, part |-> 0, ub |-> "wrap", trap |-> FALSE,
          ret |-> ZZ_OK]

NoOp == [op |-> "none", u |-> NULL, v |-> NULL, o1 |-> NULL, o2 |-> NULL,
         o3 |-> NULL, imm |-> 0, ub |-> "wrap"]

EmptyTracker == [size |-> 0, alloc |-> 0, ptrs |-> <<>>]

(* the caller's values after zz_init and an assignment to x and y *)
HeapOf(x, y, z) ==
    [s \in Slots |-> IF s = "x" THEN x ELSE IF s = "y" THEN y
                     ELSE IF s = "z" THEN z ELSE InitZ]

(* what a value holds, without its spare capacity *)
Repr(z) == [negative |-> z.negative, size |-> z.size,
            digits |-> SubSeq(z.digits, 1, z.size)]

TempsCleared == \A s \in Temps : heap[s] = InitZ

Abs(a) == IF a < 0 THEN 0 - a ELSE a
Sign(a) == IF a < 0 THEN -1 ELSE IF a > 0 THEN 1 ELSE 0

(* a to the n-th power, 1 for n = 0 *)
RECURSIVE Power(_, _)
Power(a, n) == IF n = 0 THEN 1 ELSE a * Power(a, n - 1)

-----------------------------------------------------------------------------
(* SpecArith: one call of an addition, subtraction or multiplication on
   operands drawn from Values, with every placement of the output *)

BigOps == {"add", "sub", "mul"}
MixedOps == {"add_i64", "add_u64", "sub_i64", "sub_u64", "i64_sub", "u64_sub",
             "mul_i64", "mul_u64"}

ApplyArith(m, op, u, v, imm, w) ==
    CASE op = "add" -> zz_add(m, u, v, w)
      [] op = "sub" -> zz_sub(m, u, v, w)
      [] op = "mul" -> zz_mul(m, u, v, w)
      [] op = "add_i64" -> zz_add_i64(m, u, imm, w)
      [] op = "add_u64" -> zz_add_u64(m, u, imm, w)
      [] op = "sub_i64" -> zz_sub_i64(m, u, imm, w)
      [] op = "sub_u64" -> zz_sub_u64(m, u, imm, w)
      [] op = "i64_sub" -> zz_i64_sub(m, imm, u, w)
      [] op = "u64_sub" -> zz_u64_sub(m, imm, u, w)
      [] op = "mul_i64" -> zz_mul_i64(m, u, imm, w)
      [] op = "mul_u64" -> zz_mul_u64(m, u, imm, w)

ImmOf(op) == IF op \in {"add_i64", "sub_i64", "i64_sub", "mul_i64"} THEN Int64 ELSE UInt64

InitArith ==
    /\ \E x \in Values, y \in Values : heap = HeapOf(MkZ(x), MkZ(y), InitZ)
    /\ pc = "start"
    /\ ret = ZZ_OK
    /\ last = NoOp
    /\ pre = heap
    /\ aux = 0
    /\ tracker = EmptyTracker

Finish(r, l) ==
    /\ heap' = r.h
    /\ ret' = r.ret
    /\ last' = l
    /\ pre' = heap
    /\ pc' = "done"
    /\ UNCHANGED <<aux, tracker>>

ArithBig ==
    /\ pc = "start"
    /\ \E op \in BigOps, v \in {"x", "y"}, w \in {"x", "y", "z"} :
          /\ (v = "x" => w # "y")
          /\ Finish(ApplyArith(M0(heap), op, "x", v, 0, w),
                    [NoOp EXCEPT !.op = op, !.u = "x", !.v = v, !.o1 = w])

ArithMixed ==
    /\ pc = "start"
    /\ \E op \in MixedOps, w \in {"x", "z"} :
          \E imm \in ImmOf(op) :
             Finish(ApplyArith(M0(heap), op, "x", NULL, imm, w),
                    [NoOp EXCEPT !.op = op, !.u = "x", !.o1 = w, !.imm = imm])

NextArith == ArithBig \/ ArithMixed

SpecArith == InitArith /\ [][NextArith]_vars

(* C4: zz_add, zz_sub, zz_mul and the mixed i64/u64 variants return the same
   code and write the same value to w when w is the same object as u, as v,
   or as both, as when w is a distinct value. *)
AliasArithSame ==
    (pc = "done" /\ last.op \in BigOps \cup MixedOps) =>
        LET r == ApplyArith(M0(pre), last.op, last.u, last.v, last.imm, "z")
        IN /\ ret = r.ret
           /\ ret = ZZ_OK => /\ Defined(heap[last.o1])
                             /\ Repr(heap[last.o1]) = Repr(r.h["z"])
           /\ TempsCleared

(* a several-digit value has been squared in place *)
AliasArithWitness ==
    /\ pc = "done"
    /\ last.op = "mul" /\ last.u = "x" /\ last.v = "x" /\ last.o1 = "x"
    /\ pre["x"].size = 2
    /\ ret = ZZ_OK
    /\ heap["x"].size = 4

(* the integer an arithmetic call is to return *)
ArithExpected(op, U, V, imm) ==
    CASE op = "add" -> U + V
      [] op = "sub" -> U - V
      [] op = "mul" -> U * V
      [] op \in {"add_i64", "add_u64"} -> U + imm
      [] op \in {"sub_i64", "sub_u64"} -> U - imm
      [] op \in {"i64_sub", "u64_sub"} -> imm - U
      [] op \in {"mul_i64", "mul_u64"} -> U * imm

(* C11: zz_add, zz_sub, zz_mul and the mixed i64/u64 variants return ZZ_OK
   and leave in w, in canonical form, exactly the sum, difference or product
   of the integers they were called with; subtracting v from u + v gives u
   back, and the product does not depend on the order of the operands. *)
ArithExact ==
    (pc = "done" /\ last.op \in BigOps \cup MixedOps) =>
        LET U == Val(pre[last.u])
            V == IF last.v = NULL THEN 0 ELSE Val(pre[last.v])
        IN /\ ret = ZZ_OK
           /\ Defined(heap[last.o1]) /\ Canonical(heap[last.o1])
           /\ Val(heap[last.o1]) = ArithExpected(last.op, U, V, last.imm)
           /\ (last.op = "add" /\ last.o1 = "z") =>
                 Val(zz_sub(M0(heap), "z", last.v, "z2").h["z2"]) = U
           /\ (last.op = "mul" /\ last.o1 = "z") =>
                 Repr(zz_mul(M0(pre), last.v, last.u, "z").h["z"]) = Repr(heap["z"])

(* INT64_MIN has been subtracted from a negative value of several digits,
   and the sum of the magnitudes is the difference *)
ArithExactWitness ==
    /\ pc = "done"
    /\ last.op = "sub_i64" /\ last.imm = INT64_MIN /\ last.o1 = "z"
    /\ pre["x"].size = 2 /\ pre["x"].negative
    /\ ret = ZZ_OK
    /\ Val(heap["z"]) = Val(pre["x"]) - INT64_MIN

-----------------------------------------------------------------------------
(* SpecDiv: one call of zz_div, zz_div_i64 or zz_i64_div on operands drawn
   from Values, with every request and placement of the two outputs *)

DivOps == {"div", "div_i64", "i64_div"}
UBOutcomes == {"wrap", "trap"}

ApplyDiv(m, op, u, v, imm, q, r) ==
    CASE op = "div" -> zz_div(m, u, v, q, r)
      [] op = "div_i64" -> zz_div_i64(m, u, imm, q, r)
      [] op = "i64_div" -> zz_i64_div(m, imm, v, q, r)

(* floor(a / b) and the matching remainder, b # 0 *)
FloorDiv(a, b) == IF b > 0 THEN a \div b ELSE (0 - a) \div (0 - b)
FloorMod(a, b) == a - b * FloorDiv(a, b)

InitDiv ==
    /\ \E x \in Values, y \in Values : heap = HeapOf(MkZ(x), MkZ(y), InitZ)
    /\ pc = "start"
    /\ ret = ZZ_OK
    /\ last = NoOp
    /\ pre = heap
    /\ aux = [trap |-> FALSE]
    /\ tracker = EmptyTracker

FinishDiv(r, l) ==
    /\ heap' = r.h
    /\ ret' = r.ret
    /\ last' = l
    /\ pre' = heap
    /\ pc' = "done"
    /\ aux' = [trap |-> r.trap]
    /\ UNCHANGED tracker

DivBig ==
    /\ pc = "start"
    /\ \E v \in {"x", "y"}, q \in {NULL, "x", "y", "z"}, r \in {NULL, "x", "y", "z2"} :
          /\ q = r => q = NULL
          /\ v = "x" => "y" \notin {q, r}
          /\ FinishDiv(zz_div(M0(heap), "x", v, q, r),
                       [NoOp EXCEPT !.op = "div", !.u = "x", !.v = v, !.o1 = q, !.o2 = r])

(* the mixed entry points take one value; y is left at zero *)
DivI64 ==
    /\ pc = "start"
    /\ heap["y"].size = 0
    /\ \E imm \in Int64, q \in {NULL, "x", "z"}, r \in {NULL, "x", "z2"} :
          /\ q = r => q = NULL
          /\ FinishDiv(zz_div_i64(M0(heap), "x", imm, q, r),
                       [NoOp EXCEPT !.op = "div_i64", !.u = "x", !.imm = imm,
                                    !.o1 = q, !.o2 = r])

I64Div ==
    /\ pc = "start"
    /\ heap["y"].size = 0
    /\ \E imm \in Int64, q \in {NULL, "x", "z"}, r \in {NULL, "x", "z2"}, ub \in UBOutcomes :
          /\ q = r => q = NULL
          /\ FinishDiv(zz_i64_div([M0(heap) EXCEPT !.ub = ub], imm, "x", q, r),
                       [NoOp EXCEPT !.op = "i64_div", !.v = "x", !.imm = imm,
                                    !.o1 = q, !.o2 = r, !.ub = ub])

NextDiv == DivBig \/ DivI64 \/ I64Div

SpecDiv == InitDiv /\ [][NextDiv]_vars

DivDone == pc = "done" /\ last.op \in DivOps

(* the integers the last division was called with *)
Dividend == IF last.op = "i64_div" THEN last.imm ELSE Val(pre[last.u])
Divisor == IF last.op = "div_i64" THEN last.imm ELSE Val(pre[last.v])
(* the integers it left in its outputs *)
Quot == Val(heap[last.o1])
Rem == Val(heap[last.o2])

OutOK(o) == Defined(heap[o]) /\ Canonical(heap[o])

(* C5: with both outputs requested and q # r, zz_div and zz_div_i64 return
   the same code and leave the same quotient and remainder when q or r is an
   operand as when the outputs are values distinct from the operands. *)
AliasDivSame ==
    (DivDone /\ last.op \in {"div", "div_i64"} /\ last.o1 # NULL /\ last.o2 # NULL
        /\ Divisor # 0) =>
        LET ref == ApplyDiv(M0(pre), last.op, last.u, last.v, last.imm, "z", "z2")
        IN /\ ret = ref.ret
           /\ Repr(heap[last.o1]) = Repr(ref.h["z"])
           /\ Repr(heap[last.o2]) = Repr(ref.h["z2"])

(* zz_div(u, v, u, r) with u shorter than v returned ZZ_OK and left a
   remainder that is not the floor remainder *)
ShortDividendOverwritten ==
    /\ DivDone /\ last.op = "div" /\ last.v = "y"
    /\ last.o1 = "x" /\ last.o2 = "z2"
    /\ pre["x"].size # 0 /\ pre["x"].size < pre["y"].size
    /\ ret = ZZ_OK
    /\ Rem # FloorMod(Dividend, Divisor)

(* C7: for nonzero v, zz_div with only the quotient requested leaves
   floor(u / v), and with only the remainder requested leaves
   u - v * floor(u / v), which is zero or has the sign of v and is smaller
   than v in magnitude. *)
FloorDivision ==
    (DivDone /\ last.op = "div" /\ Divisor # 0 /\ (last.o1 = NULL) # (last.o2 = NULL)) =>
        /\ ret = ZZ_OK
        /\ last.o1 # NULL => OutOK(last.o1) /\ Quot = FloorDiv(Dividend, Divisor)
        /\ last.o2 # NULL =>
              /\ OutOK(last.o2)
              /\ Rem = Dividend - Divisor * FloorDiv(Dividend, Divisor)
              /\ Rem = 0 \/ (Rem < 0) = (Divisor < 0)
              /\ Rem * Rem < Divisor * Divisor
        /\ TempsCleared

(* the quotient adjustment of the kernel path has run for a quotient-only
   call *)
FloorDivisionWitness ==
    /\ DivDone /\ last.op = "div" /\ last.o1 = "z" /\ last.o2 = NULL
    /\ pre["x"].size = 2 /\ pre[last.v].size = 1
    /\ pre["x"].negative # pre[last.v].negative
    /\ ret = ZZ_OK
    /\ Quot * Divisor # Dividend

(* C8 as stated: q * v + r = u with the quotient rounded toward zero and the
   remainder zero or of the sign of the dividend. *)
TruncIdentity ==
    (DivDone /\ last.op = "div" /\ Divisor # 0 /\ last.o1 = "z" /\ last.o2 = "z2") =>
        /\ ret = ZZ_OK
        /\ Quot * Divisor + Rem = Dividend
        /\ Quot = TDiv(Dividend, Divisor)
        /\ Rem = 0 \/ (Rem < 0) = (Dividend < 0)

(* C8: q * v + r = u with the quotient rounded toward minus infinity and the
   remainder zero or of the sign of the divisor, smaller than the divisor in
   magnitude. *)
FloorIdentity ==
    (DivDone /\ last.op = "div" /\ Divisor # 0 /\ last.o1 = "z" /\ last.o2 = "z2") =>
        /\ ret = ZZ_OK
        /\ OutOK("z") /\ OutOK("z2")
        /\ Quot * Divisor + Rem = Dividend
        /\ Quot = FloorDiv(Dividend, Divisor)
        /\ Rem = 0 \/ (Rem < 0) = (Divisor < 0)
        /\ Rem * Rem < Divisor * Divisor

(* a division with operands of opposite signs and a nonzero remainder has
   left both outputs *)
FloorIdentityWitness ==
    /\ DivDone /\ last.op = "div" /\ last.o1 = "z" /\ last.o2 = "z2"
    /\ Dividend < 0 /\ Divisor > 0
    /\ ret = ZZ_OK
    /\ Rem > 0
    /\ Quot # TDiv(Dividend, Divisor)

(* C9: zz_div, zz_div_i64 and zz_i64_div return ZZ_VAL for a zero divisor
   whatever outputs are requested, also when an output is the divisor, and
   change no value; with a nonzero divisor and no output requested they
   return ZZ_OK and change no value. *)
DivByZero ==
    DivDone =>
        /\ Divisor = 0 => ret = ZZ_VAL /\ heap = pre /\ ~aux.trap
        /\ (Divisor # 0 /\ last.o1 = NULL /\ last.o2 = NULL) =>
              ret = ZZ_OK /\ heap = pre /\ ~aux.trap

(* zz_div was called with a zero divisor that is also the quotient output *)
DivByZeroWitness ==
    /\ DivDone /\ last.op = "div" /\ Divisor = 0 /\ Dividend # 0
    /\ last.v = "y" /\ last.o1 = "y" /\ last.o2 = "z2"
    /\ ret = ZZ_VAL

(* C10: for nonzero divisors, zz_div_i64 and zz_i64_div leave the floor
   quotient and remainder of the integers they were called with. *)
MixedDivFloor ==
    (DivDone /\ last.op \in {"div_i64", "i64_div"} /\ Divisor # 0
        /\ last.o1 \in {NULL, "z"} /\ last.o2 \in {NULL, "z2"}) =>
        /\ ~aux.trap
        /\ ret = ZZ_OK
        /\ last.o1 # NULL => OutOK(last.o1) /\ Quot = FloorDiv(Dividend, Divisor)
        /\ last.o2 # NULL => OutOK(last.o2) /\ Rem = FloorMod(Dividend, Divisor)

(* zz_i64_div(INT64_MIN, -1, q, NULL) came back with a negative quotient *)
MinByMinusOneNegative ==
    /\ DivDone /\ last.op = "i64_div"
    /\ last.imm = INT64_MIN /\ Divisor = -1
    /\ last.o1 = "z" /\ last.o2 = NULL
    /\ ~aux.trap
    /\ ret = ZZ_OK
    /\ Quot = INT64_MIN

-----------------------------------------------------------------------------
(* SpecShift: one call of zz_quo_2exp or zz_mul_2exp on an operand drawn from
   Values, with every bit count of the zz_bitcnt_t range, the output being
   the operand or a value that held a number before *)

(* the values of zz_bitcnt_t *)
BitCounts == 0 .. ZZ_BITS_MAX

InitShift ==
    /\ \E x \in Values, z \in OldValues : heap = HeapOf(MkZ(x), InitZ, MkZ(z))
    /\ pc = "start"
    /\ ret = ZZ_OK
    /\ last = NoOp
    /\ pre = heap
    /\ aux = 0
    /\ tracker = EmptyTracker

ShiftQuo ==
    /\ pc = "start"
    /\ \E shift \in BitCounts, w \in {"x", "z"} :
          Finish(zz_quo_2exp(M0(heap), "x", shift, w),
                 [NoOp EXCEPT !.op = "quo_2exp", !.u = "x", !.imm = shift, !.o1 = w])

ShiftMul ==
    /\ pc = "start"
    /\ \E shift \in BitCounts, w \in {"x", "z"} :
          Finish(zz_mul_2exp(M0(heap), "x", shift, w),
                 [NoOp EXCEPT !.op = "mul_2exp", !.u = "x", !.imm = shift, !.o1 = w])

NextShift == ShiftQuo \/ ShiftMul

SpecShift == InitShift /\ [][NextShift]_vars

(* C12: zz_quo_2exp returns ZZ_OK and leaves floor(u / 2^k) in canonical
   form, also when the output is the operand: the truncated magnitude for
   u >= 0, the truncated magnitude plus one for u < 0 when a shifted-out bit
   is nonzero, and 0 or -1 when k is at least the bit size of u. *)
QuoFloor ==
    (pc = "done" /\ last.op = "quo_2exp") =>
        LET U == Val(pre["x"])
            k == last.imm
            absU == IF U < 0 THEN 0 - U ELSE U
            trunc == absU \div 2 ^ k
            lost == absU % 2 ^ k # 0
        IN /\ ret = ZZ_OK
           /\ Defined(heap[last.o1]) /\ Canonical(heap[last.o1])
           /\ Val(heap[last.o1]) = FloorDiv(U, 2 ^ k)
           /\ U >= 0 => Val(heap[last.o1]) = trunc
           /\ U < 0 => Val(heap[last.o1]) = 0 - (trunc + (IF lost THEN 1 ELSE 0))
           /\ k >= pre["x"].size * ZZ_DIGIT_T_BITS =>
                 Val(heap[last.o1]) = (IF U < 0 THEN -1 ELSE 0)

(* a negative value whose digits above the shift are all ones was shifted in
   place with a bit lost, and the increment carried into a new top digit *)
QuoFloorWitness ==
    /\ pc = "done" /\ last.op = "quo_2exp" /\ last.o1 = "x"
    /\ pre["x"].negative /\ pre["x"].size = 2
    /\ last.imm = ZZ_DIGIT_T_BITS
    /\ pre["x"].digits[1] # 0 /\ pre["x"].digits[2] = ZZ_DIGIT_T_MAX
    /\ ret = ZZ_OK
    /\ heap["x"].size = 2
    /\ Val(heap["x"]) = 0 - B

(* C13 as stated: zz_mul_2exp fails with ZZ_BUF, leaving v unchanged, when
   the digit count of u * 2^k exceeds ZZ_DIGITS_MAX, and otherwise returns
   ZZ_OK with v = u * 2^k. *)
MulShiftFits ==
    (pc = "done" /\ last.op = "mul_2exp") =>
        LET U == Val(pre["x"])
            R == U * 2 ^ last.imm
        IN IF NDigits(IF R < 0 THEN 0 - R ELSE R) > ZZ_DIGITS_MAX
           THEN ret = ZZ_BUF /\ heap = pre
           ELSE /\ ret = ZZ_OK
                /\ Defined(heap[last.o1]) /\ Canonical(heap[last.o1])
                /\ Val(heap[last.o1]) = R

(* C13: zz_mul_2exp fails with ZZ_BUF, leaving v unchanged, when u is not
   zero and the digit count of u plus the whole digits of the shift, plus one
   if k is not a multiple of the digit width, exceeds ZZ_DIGITS_MAX; otherwise
   it returns ZZ_OK with v = u * 2^k in canonical form, zero for u = 0, and
   zz_quo_2exp by the same k gives u back. *)
MulShiftExact ==
    (pc = "done" /\ last.op = "mul_2exp") =>
        LET U == Val(pre["x"])
            k == last.imm
            v_size == pre["x"].size + (k \div ZZ_DIGIT_T_BITS)
                         + (IF k % ZZ_DIGIT_T_BITS # 0 THEN 1 ELSE 0)
        IN IF U # 0 /\ v_size > ZZ_DIGITS_MAX
           THEN ret = ZZ_BUF /\ heap = pre
           ELSE /\ ret = ZZ_OK
                /\ Defined(heap[last.o1]) /\ Canonical(heap[last.o1])
                /\ Val(heap[last.o1]) = U * 2 ^ k
                /\ Val(zz_quo_2exp(M0(heap), last.o1, k, "z2").h["z2"]) = U

(* a negative value was shifted by more than a digit into an output that
   held a number, and the vacated low digits are zero *)
MulShiftWitness ==
    /\ pc = "done" /\ last.op = "mul_2exp" /\ last.o1 = "z"
    /\ pre["x"].negative /\ pre["z"].size = 2
    /\ last.imm = ZZ_DIGIT_T_BITS + 1
    /\ ret = ZZ_OK
    /\ heap["z"].size = 3
    /\ heap["z"].digits[1] = 0

-----------------------------------------------------------------------------
(* SpecBit: one call of zz_and, zz_or, zz_xor or zz_invert on operands drawn
   from Values, with every placement of the output *)

LogicOps == {"and", "or", "xor"}

ApplyBit(m, op, u, v, w) ==
    CASE op = "and" -> zz_and(m, u, v, w)
      [] op = "or" -> zz_or(m, u, v, w)
      [] op = "xor" -> zz_xor(m, u, v, w)

(* the operation on the infinite two's-complement representations *)
RECURSIVE TwosComplement(_, _, _)
TwosComplement(op, a, b) ==
    IF a \in {0, -1} /\ b \in {0, -1}
    THEN 0 - BitOf(op, a % 2, b % 2)
    ELSE BitOf(op, a % 2, b % 2) + 2 * TwosComplement(op, a \div 2, b \div 2)

BitExpected(op, U, V) ==
    CASE op = "and" -> TwosComplement("and", U, V)
      [] op = "or" -> TwosComplement("ior", U, V)
      [] op = "xor" -> TwosComplement("xor", U, V)
      [] op = "invert" -> TwosComplement("andn", -1, U)

InitBit ==
    /\ \E x \in Values, y \in Values, z \in OldValues :
          heap = HeapOf(MkZ(x), MkZ(y), MkZ(z))
    /\ pc = "start"
    /\ ret = ZZ_OK
    /\ last = NoOp
    /\ pre = heap
    /\ aux = 0
    /\ tracker = EmptyTracker

BitLogic ==
    /\ pc = "start"
    /\ \E op \in LogicOps, w \in User :
          Finish(ApplyBit(M0(heap), op, "x", "y", w),
                 [NoOp EXCEPT !.op = op, !.u = "x", !.v = "y", !.o1 = w])

BitInvert ==
    /\ pc = "start"
    /\ \E w \in {"x", "z"} :
          Finish(zz_invert(M0(heap), "x", w),
                 [NoOp EXCEPT !.op = "invert", !.u = "x", !.o1 = w])

NextBit == BitLogic \/ BitInvert

SpecBit == InitBit /\ [][NextBit]_vars

(* C14: zz_and, zz_or and zz_xor return ZZ_OK and leave in w, in canonical
   form, the bitwise AND, OR and XOR of the infinite two's-complement
   representations of u and v, and zz_invert leaves -u - 1, for every
   combination of signs and digit counts, also when w is u or v; the other
   values of the caller are left alone and the temporaries are cleared. *)
BitwiseExact ==
    (pc = "done" /\ last.op \in LogicOps \cup {"invert"}) =>
        LET U == Val(pre["x"])
            V == Val(pre["y"])
        IN /\ ret = ZZ_OK
           /\ Defined(heap[last.o1]) /\ Canonical(heap[last.o1])
           /\ Val(heap[last.o1]) = BitExpected(last.op, U, V)
           /\ last.op = "invert" => Val(heap[last.o1]) = 0 - U - 1
           /\ \A s \in User \ {last.o1} : heap[s] = pre[s]
           /\ TempsCleared

(* two negative values of different digit counts were combined with zz_and
   into the first of them, and the increment carried into a new top digit *)
BitwiseExactWitness ==
    /\ pc = "done" /\ last.op = "and" /\ last.o1 = "x"
    /\ pre["x"].negative /\ pre["y"].negative
    /\ pre["x"].size = MaxDigits /\ pre["y"].size = 1
    /\ ret = ZZ_OK
    /\ heap["x"].size = MaxDigits + 1
    /\ Val(heap["x"]) = 0 - B ^ MaxDigits

-----------------------------------------------------------------------------
(* SpecRoot: one call of zz_sqrtrem on an operand drawn from Values, with the
   root and the remainder placed on the operand or on values that hold
   earlier numbers, and the remainder optional *)

InitRoot ==
    /\ \E x \in Values, z \in OldValues, z2 \in OldValues :
          heap = [HeapOf(MkZ(x), InitZ, MkZ(z)) EXCEPT !["z2"] = MkZ(z2)]
    /\ pc = "start"
    /\ ret = ZZ_OK
    /\ last = NoOp
    /\ pre = heap
    /\ aux = 0
    /\ tracker = EmptyTracker

Sqrtrem ==
    /\ pc = "start"
    /\ \E v \in {"x", "z"}, w \in {"x", "z2", NULL} :
          /\ v # w
          /\ Finish(zz_sqrtrem(M0(heap), "x", v, w),
                    [NoOp EXCEPT !.op = "sqrtrem", !.u = "x", !.o1 = v, !.o2 = w])

NextRoot == Sqrtrem

SpecRoot == InitRoot /\ [][NextRoot]_vars

(* C16: for u >= 0 zz_sqrtrem returns ZZ_OK with v >= 0, v*v + w = u and
   0 <= w <= 2v, also when w is not requested and when v or w is u; for
   u < 0 it returns ZZ_VAL and leaves v and w as they were. *)
SqrtremExact ==
    (pc = "done" /\ last.op = "sqrtrem") =>
        LET U == Val(pre["x"])
            V == Val(heap[last.o1])
        IN IF U >= 0
           THEN /\ ret = ZZ_OK
                /\ Defined(heap[last.o1]) /\ Canonical(heap[last.o1])
                /\ V >= 0 /\ V * V <= U /\ U < (V + 1) * (V + 1)
                /\ last.o2 # NULL =>
                      /\ Defined(heap[last.o2]) /\ Canonical(heap[last.o2])
                      /\ V * V + Val(heap[last.o2]) = U
                      /\ 0 <= Val(heap[last.o2]) /\ Val(heap[last.o2]) <= 2 * V
                /\ \A s \in User \ {last.o1, last.o2} : heap[s] = pre[s]
                /\ TempsCleared
           ELSE ret = ZZ_VAL /\ heap = pre

(* the root of a two-digit value that is not a square replaced the value,
   and the remainder replaced an earlier number *)
SqrtremExactWitness ==
    /\ pc = "done" /\ last.op = "sqrtrem"
    /\ last.o1 = "x" /\ last.o2 = "z2"
    /\ pre["x"].size = MaxDigits /\ ~pre["x"].negative
    /\ pre["z2"].size # 0
    /\ ret = ZZ_OK
    /\ Val(heap["z2"]) = 2 * Val(heap["x"])

-----------------------------------------------------------------------------
(* SpecCmp: one call of zz_cmp on two values drawn from Values, or on one of
   them twice, or of zz_cmp_i64 on a value and an int64_t; aux holds the
   zz_ord returned *)

InitCmp ==
    /\ \E x \in Values, y \in Values : heap = HeapOf(MkZ(x), MkZ(y), InitZ)
    /\ pc = "start"
    /\ ret = ZZ_OK
    /\ last = NoOp
    /\ pre = heap
    /\ aux = 0
    /\ tracker = EmptyTracker

Cmp ==
    /\ pc = "start"
    /\ \E u \in {"x", "y"}, v \in {"x", "y"} :
          /\ aux' = zz_cmp(heap, u, v)
          /\ last' = [NoOp EXCEPT !.op = "cmp", !.u = u, !.v = v]
    /\ pc' = "done"
    /\ pre' = heap
    /\ UNCHANGED <<heap, ret, tracker>>

CmpI64 ==
    /\ pc = "start"
    /\ \E x \in Int64 :
          /\ aux' = zz_cmp_i64(heap["x"], x)
          /\ last' = [NoOp EXCEPT !.op = "cmp_i64", !.u = "x", !.imm = x]
    /\ pc' = "done"
    /\ pre' = heap
    /\ UNCHANGED <<heap, ret, tracker>>

NextCmp == Cmp \/ CmpI64

SpecCmp == InitCmp /\ [][NextCmp]_vars

(* the order of two integers as a zz_ord *)
Order(a, b) == IF a < b THEN ZZ_LT ELSE IF a > b THEN ZZ_GT ELSE ZZ_EQ

(* C17: zz_cmp returns ZZ_LT, ZZ_EQ or ZZ_GT as the integer u is less than,
   equal to or greater than the integer v, so zz_cmp(u, v) = -zz_cmp(v, u);
   zz_cmp_i64(u, x) returns what zz_cmp returns on u and a value set to x,
   for every int64_t x and u of zero, one or several digits. *)
CmpOrder ==
    /\ (pc = "done" /\ last.op = "cmp") =>
          /\ aux = Order(Val(heap[last.u]), Val(heap[last.v]))
          /\ aux = 0 - zz_cmp(heap, last.v, last.u)
    /\ (pc = "done" /\ last.op = "cmp_i64") =>
          /\ aux = Order(Val(heap["x"]), last.imm)
          /\ aux = zz_cmp(zz_set_i64(M0(heap), last.imm, "z").h, "x", "z")

(* two negative values of several digits that differ in the top digit only
   were compared *)
CmpOrderWitness ==
    /\ pc = "done" /\ last.op = "cmp" /\ last.u = "x" /\ last.v = "y"
    /\ heap["x"].negative /\ heap["y"].negative
    /\ heap["x"].size = MaxDigits /\ heap["y"].size = MaxDigits
    /\ heap["x"].digits[1] = heap["y"].digits[1]
    /\ heap["x"].digits[MaxDigits] > heap["y"].digits[MaxDigits]
    /\ aux = ZZ_LT

-----------------------------------------------------------------------------
(* SpecPow: one call of zz_pow on a base drawn from Values and an exponent
   that goes past ZZ_DIGITS_MAX, as a uint64_t does, with the power placed
   on the base or on a value that holds an earlier number *)

Exponents == 0 .. ZZ_DIGITS_MAX + 1

InitPow ==
    /\ \E x \in Values, z \in OldValues : heap = HeapOf(MkZ(x), InitZ, MkZ(z))
    /\ pc = "start"
    /\ ret = ZZ_OK
    /\ last = NoOp
    /\ pre = heap
    /\ aux = 0
    /\ tracker = EmptyTracker

Pow ==
    /\ pc = "start"
    /\ \E e \in Exponents, w \in {"x", "z"} :
          Finish(zz_pow(M0(heap), "x", e, w),
                 [NoOp EXCEPT !.op = "pow", !.u = "x", !.imm = e, !.o1 = w])

NextPow == Pow

SpecPow == InitPow /\ [][NextPow]_vars

(* C18: zz_pow returns ZZ_OK with w = u^e: 1 for e = 0 whatever u is, 0 for
   u = 0 and e > 0, and +1 or -1 for a base of magnitude 1; for a larger base
   it fails with ZZ_BUF, leaving w alone, when e times the digit count of u
   exceeds ZZ_DIGITS_MAX; the same holds when w is u. *)
PowExact ==
    (pc = "done" /\ last.op = "pow") =>
        LET U == Val(pre["x"])
            e == last.imm
        IN IF Abs(U) > 1 /\ e * pre["x"].size > ZZ_DIGITS_MAX
           THEN ret = ZZ_BUF /\ heap = pre
           ELSE /\ ret = ZZ_OK
                /\ Defined(heap[last.o1]) /\ Canonical(heap[last.o1])
                /\ Val(heap[last.o1]) = Power(U, e)
                /\ \A s \in User \ {last.o1} : heap[s] = pre[s]
                /\ TempsCleared

(* -1 was raised to an exponent above ZZ_DIGITS_MAX and the call was refused *)
MinusOneRefused ==
    /\ pc = "done" /\ last.op = "pow"
    /\ Val(pre["x"]) = -1 /\ last.imm = ZZ_DIGITS_MAX + 1
    /\ ret = ZZ_BUF

-----------------------------------------------------------------------------
(* SpecPowm: one call of zz_powm on a base x and a modulus z drawn from
   Values and an exponent y of either sign, with the result placed on the
   base, the exponent, the modulus or a value that holds an earlier number *)

PowmExponents == (0 - (B + 1)) .. (B + 1)

InitPowm ==
    /\ \E x \in Values, y \in PowmExponents, z \in Values :
          heap = [HeapOf(MkZ(x), MkZ(y), MkZ(z)) EXCEPT !["z2"] = MkZ(-5)]
    /\ pc = "start"
    /\ ret = ZZ_OK
    /\ last = NoOp
    /\ pre = heap
    /\ aux = 0
    /\ tracker = EmptyTracker

Powm ==
    /\ pc = "start"
    /\ \E res \in {"x", "y", "z", "z2"} :
          Finish(zz_powm(M0(heap), "x", "y", "z", res),
                 [NoOp EXCEPT !.op = "powm", !.u = "x", !.v = "y", !.o1 = res])

NextPowm == Powm

SpecPowm == InitPowm /\ [][NextPowm]_vars

(* C19: zz_powm fails with ZZ_VAL for a zero modulus, and for a negative
   exponent exactly when gcd(u, m) is not 1; otherwise it returns ZZ_OK with
   x congruent to u^e modulo m (to the |e|-th power of the inverse of u for
   e < 0), 0 <= x < m for m > 0 and m < x <= 0 for m < 0; the result is the
   same when x is u, e or m. *)
PowmExact ==
    (pc = "done" /\ last.op = "powm") =>
        LET U == Val(pre["x"])
            E == Val(pre["y"])
            M == Val(pre["z"])
            X == Val(heap[last.o1])
        IN IF M = 0 \/ (E < 0 /\ GCD(Abs(U), Abs(M)) # 1)
           THEN ret = ZZ_VAL /\ heap = pre
           ELSE /\ ret = ZZ_OK
                /\ Defined(heap[last.o1]) /\ Canonical(heap[last.o1])
                /\ E >= 0 => (X - Power(U, E)) % Abs(M) = 0
                /\ E < 0 => (X * Power(U, 0 - E) - 1) % Abs(M) = 0
                /\ M > 0 => (0 <= X /\ X < M)
                /\ M < 0 => (M < X /\ X <= 0)
                /\ Repr(heap[last.o1])
                      = Repr(zz_powm(M0(pre), "x", "y", "z", "z3").h["z3"])
                /\ \A s \in User \ {last.o1} : heap[s] = pre[s]
                /\ TempsCleared

(* a negative exponent and a negative modulus of several digits: the inverse
   of the base was raised to the power and the result, not zero, replaced
   the modulus *)
PowmExactWitness ==
    /\ pc = "done" /\ last.op = "powm" /\ last.o1 = "z"
    /\ Val(pre["y"]) < -1
    /\ pre["z"].negative /\ pre["z"].size = MaxDigits
    /\ Abs(Val(pre["x"])) > 1
    /\ ret = ZZ_OK
    /\ Val(heap["z"]) < -1

-----------------------------------------------------------------------------
(* SpecSet: one call of zz_set_i32, zz_set_i64 or zz_set_u64 on a value x
   that holds an earlier number drawn from Values *)

InitSet ==
    /\ \E x \in Values : heap = HeapOf(MkZ(x), InitZ, InitZ)
    /\ pc = "start"
    /\ ret = ZZ_OK
    /\ last = NoOp
    /\ pre = heap
    /\ aux = [trap |-> FALSE]
    /\ tracker = EmptyTracker

SetI32 ==
    /\ pc = "start"
    /\ \E u \in Int32, ub \in AbsOutcomes :
          FinishDiv(zz_set_i32([M0(heap) EXCEPT !.ub = ub], u, "x"),
                    [NoOp EXCEPT !.op = "set_i32", !.imm = u, !.o1 = "x", !.ub = ub])

SetI64 ==
    /\ pc = "start"
    /\ \E u \in Int64 :
          FinishDiv(zz_set_i64(M0(heap), u, "x"),
                    [NoOp EXCEPT !.op = "set_i64", !.imm = u, !.o1 = "x"])

SetU64 ==
    /\ pc = "start"
    /\ \E u \in UInt64 :
          FinishDiv(zz_set_u64(M0(heap), u, "x"),
                    [NoOp EXCEPT !.op = "set_u64", !.imm = u, !.o1 = "x"])

NextSet == SetI32 \/ SetI64 \/ SetU64

SpecSet == InitSet /\ [][NextSet]_vars

(* the matching zz_get_* on the value just set *)
GetBack(op, z) ==
    CASE op = "set_i32" -> zz_get_i32(z)
      [] op = "set_i64" -> zz_get_i64(z)
      [] op = "set_u64" -> zz_get_u64(z)

(* C20: zz_set_i32, zz_set_i64 and zz_set_u64 return ZZ_OK and leave the
   canonical zero for x = 0 and otherwise one digit holding |x| with
   negative = (x < 0), for every x of the type including INT32_MIN and
   INT64_MIN, and the matching zz_get_* then returns ZZ_OK and x. *)
SetGetExact ==
    (pc = "done" /\ last.op \in {"set_i32", "set_i64", "set_u64"}) =>
        LET x == last.imm
            z == heap["x"]
        IN /\ ~aux.trap
           /\ ret = ZZ_OK
           /\ x = 0 => (z.size = 0 /\ ~z.negative)
           /\ x # 0 => (z.size = 1 /\ z.digits[1] = Abs(x) /\ z.negative = (x < 0))
           /\ GetBack(last.op, z) = Got(x)

(* zz_set_i32(INT32_MIN, x) with a wrapping abs left a digit that is not
   2^31, and zz_get_i32 does not return INT32_MIN *)
MinInt32SignExtended ==
    /\ pc = "done" /\ last.op = "set_i32" /\ last.imm = INT32_MIN
    /\ last.ub = "wrap"
    /\ ret = ZZ_OK
    /\ heap["x"].size = 1 /\ heap["x"].negative
    /\ heap["x"].digits[1] = B + INT32_MIN
    /\ zz_get_i32(heap["x"]).ret = ZZ_BUF

-----------------------------------------------------------------------------
(* SpecGcd: one call of zz_gcdext with all three outputs requested, on
   operands drawn from Values, with every placement of one output on an
   operand *)

InitGcd ==
    /\ \E x \in Values, y \in Values : heap = HeapOf(MkZ(x), MkZ(y), InitZ)
    /\ pc = "start"
    /\ ret = ZZ_OK
    /\ last = NoOp
    /\ pre = heap
    /\ aux = 0
    /\ tracker = EmptyTracker

(* which output, if any, is one of the operands *)
Gcdext ==
    /\ pc = "start"
    /\ \E g \in {"x", "y", "z"}, s \in {"x", "y", "z2"}, t \in {"x", "y", "z3"} :
          /\ (IF g # "z" THEN 1 ELSE 0) + (IF s # "z2" THEN 1 ELSE 0)
                + (IF t # "z3" THEN 1 ELSE 0) <= 1
          /\ Finish(zz_gcdext(M0(heap), "x", "y", g, s, t),
                    [NoOp EXCEPT !.op = "gcdext", !.u = "x", !.v = "y",
                                 !.o1 = g, !.o2 = s, !.o3 = t])

(* which of the outputs are requested, none of them an operand *)
GcdextSubset ==
    /\ pc = "start"
    /\ \E g \in {"z", NULL}, s \in {"z2", NULL}, t \in {"z3", NULL} :
          Finish(zz_gcdext(M0(heap), "x", "y", g, s, t),
                 [NoOp EXCEPT !.op = "gcdext_subset", !.u = "x", !.v = "y",
                              !.o1 = g, !.o2 = s, !.o3 = t])

NextGcd == Gcdext \/ GcdextSubset

SpecGcd == InitGcd /\ [][NextGcd]_vars

(* C6: zz_gcdext returns the same code and leaves the same g, s and t when
   one of g, s, t is the operand u or the operand v as when the three
   outputs are values distinct from the operands. *)
AliasGcdextSame ==
    (pc = "done" /\ last.op = "gcdext") =>
        LET ref == zz_gcdext(M0(pre), "x", "y", "z", "z2", "z3")
        IN /\ ret = ref.ret
           /\ Repr(heap[last.o1]) = Repr(ref.h["z"])
           /\ Repr(heap[last.o2]) = Repr(ref.h["z2"])
           /\ Repr(heap[last.o3]) = Repr(ref.h["z3"])

(* zz_gcdext(u, 0, u, s, t) with a negative u left s = 1 *)
CofactorSignLost ==
    /\ pc = "done" /\ last.op = "gcdext"
    /\ last.o1 = "x" /\ last.o2 = "z2" /\ last.o3 = "z3"
    /\ Val(pre["x"]) < 0 /\ Val(pre["y"]) = 0
    /\ ret = ZZ_OK
    /\ Val(heap["z2"]) = 1

(* C15: zz_gcdext returns ZZ_OK with g = gcd(|u|, |v|) >= 0 and
   u*s + v*t = g; for v = 0 it gives g = |u|, s = sign(u), t = 0, and the
   symmetric values for u = 0; every requested subset of g, s, t receives the
   values it receives when all three are requested. *)
GcdextExact ==
    (pc = "done" /\ last.op = "gcdext_subset") =>
        LET U == Val(pre["x"])
            V == Val(pre["y"])
            all == zz_gcdext(M0(pre), "x", "y", "z", "z2", "z3").h
            G == Val(all["z"])
            S == Val(all["z2"])
            T == Val(all["z3"])
        IN /\ ret = ZZ_OK
           /\ G = GCD(Abs(U), Abs(V)) /\ U * S + V * T = G
           /\ V = 0 => (S = Sign(U) /\ T = 0)
           /\ U = 0 => (T = Sign(V) /\ S = 0)
           /\ \A o \in {last.o1, last.o2, last.o3} \ {NULL} :
                 /\ Defined(heap[o]) /\ Canonical(heap[o])
                 /\ Repr(heap[o]) = Repr(all[o])
           /\ TempsCleared

(* only g was requested, for operands of equal digit count of which the
   first lost its top digit to the common shift: mpn_gcd was called with
   fewer digits in its first operand than in its second, and g is not the
   greatest common divisor *)
GcdShortFirstOperand ==
    LET U == Abs(Val(pre["x"]))
        V == Abs(Val(pre["y"]))
        shift == MIN(Lsb(U), Lsb(V))
    IN /\ pc = "done" /\ last.op = "gcdext_subset"
       /\ last.o1 = "z" /\ last.o2 = NULL /\ last.o3 = NULL
       /\ pre["x"].size = pre["y"].size
       /\ NDigits(U \div 2 ^ shift) < NDigits(V \div 2 ^ shift)
       /\ ~ (Defined(heap["z"]) /\ Val(heap["z"]) = GCD(U, V))

-----------------------------------------------------------------------------
(* SpecMem: one call of a multiplication, a division or zz_gcdext in which
   the fail-th allocation attempt fails; a kernel that runs out of scratch
   memory has stored part digits by then.  The outputs hold earlier values. *)

MaxFail == 4
MaxPart == 2

MFail(h, fail, part) == [M0(h) EXCEPT !.fail = fail, !.part = part]

InitMem ==
    /\ \E x \in Values, y \in Values, z \in OldValues :
          heap = [HeapOf(MkZ(x), MkZ(y), MkZ(z)) EXCEPT !["z2"] = MkZ(z)]
    /\ pc = "start"
    /\ ret = ZZ_OK
    /\ last = NoOp
    /\ pre = heap
    /\ aux = 0
    /\ tracker = EmptyTracker

MemMul ==
    /\ pc = "start"
    /\ \E v \in {"x", "y"}, w \in {"x", "z"}, fail \in 1 .. MaxFail, part \in 0 .. MaxPart :
          Finish(zz_mul(MFail(heap, fail, part), "x", v, w),
                 [NoOp EXCEPT !.op = "mul", !.u = "x", !.v = v, !.o1 = w])

MemMulU64 ==
    /\ pc = "start"
    /\ \E imm \in UInt64, w \in {"x", "z"}, fail \in 1 .. MaxFail :
          Finish(zz_mul_u64(MFail(heap, fail, 0), "x", imm, w),
                 [NoOp EXCEPT !.op = "mul_u64", !.u = "x", !.o1 = w])

MemDiv ==
    /\ pc = "start"
    /\ \E q \in {"x", "z", NULL}, r \in {"y", "z2", NULL}, fail \in 1 .. MaxFail :
          Finish(zz_div(MFail(heap, fail, 0), "x", "y", q, r),
                 [NoOp EXCEPT !.op = "div", !.u = "x", !.v = "y", !.o1 = q, !.o2 = r])

MemGcdext ==
    /\ pc = "start"
    /\ \E s \in {"z2", NULL}, t \in {"z3", NULL}, fail \in 1 .. MaxFail :
          Finish(zz_gcdext(MFail(heap, fail, 0), "x", "y", "z", s, t),
                 [NoOp EXCEPT !.op = "gcdext", !.u = "x", !.v = "y",
                              !.o1 = "z", !.o2 = s, !.o3 = t])

NextMem == MemMul \/ MemMulU64 \/ MemDiv \/ MemGcdext

SpecMem == InitMem /\ [][NextMem]_vars

Outputs == {last.o1, last.o2, last.o3} \ {NULL}
CanonicalZero(z) == z.size = 0 /\ ~z.negative

(* C2: when the call returns ZZ_MEM, every output is either exactly the
   value it held before the call or the canonical zero. *)
MemOutputsIntact ==
    (pc = "done" /\ ret = ZZ_MEM) =>
        \A o \in Outputs : Repr(heap[o]) = Repr(pre[o]) \/ CanonicalZero(heap[o])

(* zz_mul(x, x, x) on a two-digit x returned ZZ_MEM from the kernel's scratch
   allocation and left x with four digits *)
SquareLeftResized ==
    /\ pc = "done"
    /\ last.op = "mul" /\ last.v = "x" /\ last.o1 = "x"
    /\ ret = ZZ_MEM
    /\ pre["x"].size = 2
    /\ heap["x"].size = 4

-----------------------------------------------------------------------------
(* The registry of the kernels' temporary allocations.  A registry state t
   has the fields of zz_tracker (ptrs holds alloc cells, 0 for NULL), the set
   live of the addresses the allocator has handed out and not taken back,
   arr (the ptrs array is allocated), dfree (an address that is not live was
   freed), oob (a search ran off the array), jmp (longjmp was called) and
   res (the pointer returned). *)

TRACKER_SIZE_INCR == 2
MaxAddr == 3
MaxTracked == 4
MaxOps == 2
Addr == 1 .. MaxAddr

(* zz_state.free *)
sys_free(t, ptr) ==
    IF ptr = 0 THEN t
    ELSE IF ptr \in t.live THEN [t EXCEPT !.live = @ \ {ptr}]
    ELSE [t EXCEPT !.dfree = TRUE]

(* the first i, from the top, with ptrs[i] == ptr; 0 when the search leaves
   the array *)
RECURSIVE FindPtr(_, _, _)
FindPtr(ptrs, i, ptr) ==
    IF i < 1 \/ i > Len(ptrs) THEN 0
    ELSE IF ptrs[i] = ptr THEN i ELSE FindPtr(ptrs, i - 1, ptr)

(* the loop at the label err of zz_reallocate_function *)
RECURSIVE err_loop(_)
err_loop(t) ==
    IF t.size > 0
    THEN err_loop([sys_free(t, t.ptrs[t.size]) EXCEPT !.ptrs[t.size] = 0,
                                                      !.size = @ - 1])
    ELSE t

(* the label err of zz_reallocate_function: free everything, longjmp *)
realloc_err(t) ==
    [err_loop(t) EXCEPT !.arr = FALSE, !.alloc = 0, !.ptrs = <<>>, !.jmp = TRUE,
                        !.res = 0]

(* a growth that does not carry the tracked pointers over *)
tracker_grow_lost(t) ==
    [t EXCEPT !.alloc = @ + TRACKER_SIZE_INCR,
              !.ptrs = [i \in 1 .. Len(@) + TRACKER_SIZE_INCR |-> Uninit],
              !.arr = TRUE]

(* the growth of the registry at the head of zz_reallocate_function *)
tracker_grow(t) ==
    [t EXCEPT !.alloc = @ + TRACKER_SIZE_INCR,
              !.ptrs = @ \o [i \in 1 .. TRACKER_SIZE_INCR |-> Uninit],
              !.arr = TRUE]

(* grow_ok and ok are the allocator's answers; new is the address it returns *)
zz_reallocate_function(t, ptr, grow_ok, ok, new) ==
    IF t.size >= t.alloc /\ ~grow_ok THEN realloc_err(t)
    ELSE
    Bind(IF t.size >= t.alloc THEN tracker_grow(t) ELSE t, LAMBDA a :
    IF ptr = 0
    THEN IF ~ok THEN realloc_err(a)
         ELSE [a EXCEPT !.ptrs[a.size + 1] = new, !.size = @ + 1,
                        !.live = @ \cup {new}, !.res = new]
    ELSE LET i == FindPtr(a.ptrs, a.size, ptr)
         IN IF i = 0 THEN [a EXCEPT !.oob = TRUE]
            ELSE IF ~ok THEN realloc_err(a)
            ELSE [a EXCEPT !.ptrs[i] = new, !.live = (@ \ {ptr}) \cup {new},
                           !.res = new])

zz_allocate_function(t, ok_grow, ok, new) ==
    zz_reallocate_function(t, 0, ok_grow, ok, new)

(* a free that never gives the registry's own storage back *)
free_trim_keep(t) == t

(* the second loop of zz_free_function *)
RECURSIVE free_trim(_)
free_trim(t) ==
    IF t.size > 0
    THEN IF t.ptrs[t.size] # 0 THEN t
         ELSE free_trim([t EXCEPT !.size = @ - 1])
    ELSE [t EXCEPT !.arr = FALSE, !.alloc = 0, !.ptrs = <<>>]

(* zz_free_function without ptrs[i] = NULL: the freed pointer stays in the
   registry *)
zz_free_function_keep(t, ptr) ==
    LET i == FindPtr(t.ptrs, t.size, ptr)
    IN IF i = 0 THEN [t EXCEPT !.oob = TRUE]
       ELSE free_trim(sys_free(t, ptr))

zz_free_function(t, ptr) ==
    LET i == FindPtr(t.ptrs, t.size, ptr)
    IN IF i = 0 THEN [t EXCEPT !.oob = TRUE]
       ELSE free_trim(sys_free([t EXCEPT !.ptrs[i] = 0], ptr))

zz_get_alloc_state(t) == t.alloc

-----------------------------------------------------------------------------
(* SpecTracker: operations that set the checkpoint and run a kernel; the
   kernel allocates, reallocates and frees temporaries through the registry
   and returns when it holds none.  Every allocation may fail.  aux.held is
   the set of pointers the kernel holds, aux.before the registry before the
   last call. *)

TState == [size |-> tracker.size, alloc |-> tracker.alloc, ptrs |-> tracker.ptrs,
           live |-> aux.live, arr |-> aux.arr, dfree |-> aux.dfree,
           oob |-> aux.oob, jmp |-> FALSE, res |-> 0]

InitTracker ==
    /\ heap = HeapOf(InitZ, InitZ, InitZ)
    /\ pc = "idle"
    /\ ret = ZZ_OK
    /\ last = NoOp
    /\ pre = heap
    /\ aux = [live |-> {}, arr |-> FALSE, dfree |-> FALSE, oob |-> FALSE,
              held |-> {}, ops |-> 0, before |-> EmptyTracker]
    /\ tracker = EmptyTracker

(* the state after a registry call that came back as t; held is what the
   kernel holds if the call returned *)
TFinish(t, held, op) ==
    /\ tracker' = [size |-> t.size, alloc |-> t.alloc, ptrs |-> t.ptrs]
    /\ aux' = [aux EXCEPT !.live = t.live, !.arr = t.arr, !.dfree = t.dfree,
                          !.oob = t.oob,
                          !.held = IF t.jmp THEN {} ELSE held,
                          !.before = tracker]
    /\ pc' = IF t.jmp THEN "failed" ELSE "kernel"
    /\ ret' = IF t.jmp THEN ZZ_MEM ELSE ZZ_OK
    /\ last' = [NoOp EXCEPT !.op = op]
    /\ UNCHANGED <<heap, pre>>

(* if (TMP_OVERFLOW) return ZZ_MEM; then the kernel starts *)
OpBegin ==
    /\ pc \in {"idle", "failed"}
    /\ aux.ops < MaxOps
    /\ pc' = "kernel"
    /\ ret' = ZZ_OK
    /\ aux' = [aux EXCEPT !.ops = @ + 1, !.held = {}, !.before = tracker]
    /\ last' = [NoOp EXCEPT !.op = "begin"]
    /\ UNCHANGED <<heap, pre, tracker>>

KernelAlloc ==
    /\ pc = "kernel"
    /\ tracker.size < MaxTracked
    /\ \E grow_ok \in BOOLEAN, ok \in BOOLEAN, new \in Addr \ aux.live :
          LET t == zz_allocate_function(TState, grow_ok, ok, new)
          IN TFinish(t, aux.held \cup {t.res}, "malloc")

KernelRealloc ==
    /\ pc = "kernel"
    /\ \E ptr \in aux.held, grow_ok \in BOOLEAN, ok \in BOOLEAN :
          \E new \in (Addr \ aux.live) \cup {ptr} :
             LET t == zz_reallocate_function(TState, ptr, grow_ok, ok, new)
             IN TFinish(t, (aux.held \ {ptr}) \cup {t.res}, "realloc")

KernelFree ==
    /\ pc = "kernel"
    /\ \E ptr \in aux.held :
          TFinish(zz_free_function(TState, ptr), aux.held \ {ptr}, "free")

(* the kernel returns and the operation returns ZZ_OK *)
OpEnd ==
    /\ pc = "kernel"
    /\ aux.held = {}
    /\ pc' = "idle"
    /\ ret' = ZZ_OK
    /\ last' = [NoOp EXCEPT !.op = "end"]
    /\ aux' = [aux EXCEPT !.before = tracker]
    /\ UNCHANGED <<heap, pre, tracker>>

NextTracker == OpBegin \/ KernelAlloc \/ KernelRealloc \/ KernelFree \/ OpEnd

SpecTracker == InitTracker /\ [][NextTracker]_vars

(* C3: no address is ever freed twice; when an allocation fails inside an
   operation, the operation returns ZZ_MEM, no temporary is left allocated,
   the registry is empty and zz_get_alloc_state() returns 0. *)
OomLeakFree ==
    /\ ~aux.dfree
    /\ pc = "failed" =>
          /\ ret = ZZ_MEM
          /\ aux.live = {}
          /\ ~aux.arr
          /\ tracker = EmptyTracker
          /\ zz_get_alloc_state(TState) = 0

(* an allocation fails while the registry holds two temporaries and the
   hole of one freed earlier *)
OomLeakFreeWitness ==
    /\ pc = "failed"
    /\ aux.before.size >= 3
    /\ Cardinality({i \in 1 .. aux.before.size : aux.before.ptrs[i] > 0}) >= 2
    /\ \E i \in 1 .. aux.before.size : aux.before.ptrs[i] = 0

(* the count of not-yet-freed tracked temporaries *)
LiveCount == Cardinality(aux.live)

(* C25 as stated: zz_get_alloc_state() returns the count of not-yet-freed
   tracked temporaries of the thread. *)
AllocStateIsCount ==
    zz_get_alloc_state(TState) = LiveCount

(* C25: after any sequence of tracked allocations, reallocations and frees,
   zz_get_alloc_state() is 0 exactly when no tracked temporary is live;
   otherwise it is the capacity of the registry, a multiple of
   TRACKER_SIZE_INCR that is at least the count of live temporaries. *)
AllocStateZeroIffNone ==
    /\ (zz_get_alloc_state(TState) = 0) = (LiveCount = 0)
    /\ zz_get_alloc_state(TState) % TRACKER_SIZE_INCR = 0
    /\ zz_get_alloc_state(TState) >= LiveCount

(* one temporary is live after another one was freed, and the query
   returns the capacity of the registry *)
AllocStateWitness ==
    /\ pc = "kernel"
    /\ last.op = "free"
    /\ LiveCount = 1
    /\ zz_get_alloc_state(TState) = TRACKER_SIZE_INCR

-----------------------------------------------------------------------------
(* Spec: a caller runs up to MaxSteps public operations on x and y, starting
   from zz_init'ed values, and stops at the first one that does not return
   ZZ_OK.  aux.written is the set of values written as an output so far;
   last records the name of the operation only. *)

MaxSteps == 3
MaxImportLen == 2

ImportData(layout) ==
    UNION {[1 .. n -> 0 .. (2 ^ layout.bits_per_digit - 1)] : n \in 0 .. MaxImportLen}

InitSeq ==
    /\ heap = [s \in Slots |-> InitZ]
    /\ pc = "run"
    /\ ret = ZZ_OK
    /\ last = NoOp
    /\ pre = heap
    /\ aux = [steps |-> 0, written |-> {}]
    /\ tracker = EmptyTracker

CanStep == pc = "run" /\ aux.steps < MaxSteps

Step(r, l, outs) ==
    /\ heap' = r.h
    /\ ret' = r.ret
    /\ last' = l
    /\ pc' = IF r.ret = ZZ_OK THEN "run" ELSE "failed"
    /\ aux' = [steps |-> aux.steps + 1, written |-> aux.written \cup (outs \ {NULL})]
    /\ UNCHANGED <<pre, tracker>>

SeqSet ==
    /\ CanStep
    /\ \E imm \in Int64, w \in {"x", "y"} :
          Step(zz_set_i64(M0(heap), imm, w),
               [NoOp EXCEPT !.op = "set_i64"], {w})

SeqImport ==
    /\ CanStep
    /\ \E layout \in {native_layout, byte_layout}, w \in {"x", "y"} :
          \E data \in ImportData(layout) :
             Step(zz_import(M0(heap), Len(data), data, layout, w),
                  [NoOp EXCEPT !.op = "import"],
                  {w})

SeqNeg ==
    /\ CanStep
    /\ \E u \in {"x", "y"}, w \in {"x", "y"} :
          Step(zz_neg(M0(heap), u, w),
               [NoOp EXCEPT !.op = "neg"], {w})

SeqArith ==
    /\ CanStep
    /\ \E op \in BigOps, u \in {"x", "y"}, v \in {"x", "y"}, w \in {"x", "y"} :
          Step(ApplyArith(M0(heap), op, u, v, 0, w),
               [NoOp EXCEPT !.op = op], {w})

SeqDiv ==
    /\ CanStep
    /\ \E u \in {"x", "y"}, v \in {"x", "y"}, q \in {NULL, "x", "z"}, r \in {NULL, "y", "z2"} :
          Step(zz_div(M0(heap), u, v, q, r),
               [NoOp EXCEPT !.op = "div"], {q, r})

SeqDivI64 ==
    /\ CanStep
    /\ \E u \in {"x", "y"}, imm \in Int64, q \in {NULL, "x"}, r \in {NULL, "y"} :
          Step(zz_div_i64(M0(heap), u, imm, q, r),
               [NoOp EXCEPT !.op = "div_i64"],
               {q, r})

SeqGcdext ==
    /\ CanStep
    /\ \E g \in {"x", "z"}, s \in {NULL, "z2"}, t \in {NULL, "z3"} :
          Step(zz_gcdext(M0(heap), "x", "y", g, s, t),
               [NoOp EXCEPT !.op = "gcdext"], {g, s, t})

SeqShift ==
    /\ CanStep
    /\ \E op \in {"quo_2exp", "mul_2exp"}, u \in {"x", "y"}, w \in {"x", "y"},
          shift \in 0 .. (ZZ_DIGIT_T_BITS + 1) :
          Step(IF op = "quo_2exp" THEN zz_quo_2exp(M0(heap), u, shift, w)
                                  ELSE zz_mul_2exp(M0(heap), u, shift, w),
               [NoOp EXCEPT !.op = op], {w})

Next ==
    \/ SeqSet
    \/ SeqImport
    \/ SeqNeg
    \/ SeqArith
    \/ SeqDiv
    \/ SeqDivI64
    \/ SeqGcdext
    \/ SeqShift

Spec == InitSeq /\ [][Next]_vars

(* C1: after any sequence of operations that each returned ZZ_OK, every value
   written as an output has size <= alloc, a nonzero top digit if size > 0,
   and negative = FALSE if size = 0. *)
CanonicalOutputs ==
    pc = "run" => \A s \in aux.written : Canonical(heap[s])

(* x held a negative number and a one-word zero was imported into it in the
   native layout: x is left with size 0 and negative = TRUE *)
NegativeZeroImported ==
    /\ pc = "run"
    /\ last.op = "import"
    /\ "x" \in aux.written
    /\ heap["x"].size = 0
    /\ heap["x"].negative

-----------------------------------------------------------------------------
(* Conversions to machine integers: zz_get_i32, zz_get_i64, zz_get_u32,
   zz_get_u64 on every value, with a destination that holds something *)

InitGet ==
    /\ \E x \in Values : heap = HeapOf(MkZ(x), InitZ, InitZ)
    /\ pc = "start"
    /\ ret = ZZ_OK
    /\ last = NoOp
    /\ pre = heap
    /\ aux = [dest |-> 0, w |-> FALSE]
    /\ tracker = EmptyTracker

(* the call leaves *v alone unless it stores the value *)
FinishGet(g, op, old) ==
    /\ pc' = "done"
    /\ ret' = g.ret
    /\ last' = [NoOp EXCEPT !.op = op, !.u = "x", !.imm = old]
    /\ aux' = [dest |-> IF g.w THEN g.v ELSE old, w |-> g.w]
    /\ UNCHANGED <<heap, pre, tracker>>

GetI32 ==
    /\ pc = "start"
    /\ \E old \in Int32 : FinishGet(zz_get_i32(heap["x"]), "get_i32", old)

GetI64 ==
    /\ pc = "start"
    /\ \E old \in Int64 : FinishGet(zz_get_i64(heap["x"]), "get_i64", old)

GetU32 ==
    /\ pc = "start"
    /\ \E old \in UInt32 : FinishGet(zz_get_u32(heap["x"]), "get_u32", old)

GetU64 ==
    /\ pc = "start"
    /\ \E old \in UInt64 : FinishGet(zz_get_u64(heap["x"]), "get_u64", old)

NextGet == GetI32 \/ GetI64 \/ GetU32 \/ GetU64

SpecGet == InitGet /\ [][NextGet]_vars

(* the values of the target type of each conversion *)
TargetType(op) ==
    CASE op = "get_i32" -> Int32
      [] op = "get_i64" -> Int64
      [] op = "get_u32" -> UInt32
      [] op = "get_u64" -> UInt64

GetOps == {"get_i32", "get_i64", "get_u32", "get_u64"}

(* C21: zz_get_i32, zz_get_i64, zz_get_u32 and zz_get_u64 return ZZ_OK
   and store exactly u precisely when u is a value of the target type
   (the minimum signed value included); a negative u gives ZZ_VAL for an
   unsigned target whatever its magnitude, every other value that does
   not fit gives ZZ_BUF, and on failure the destination keeps what it
   held. *)
GetExact ==
    (pc = "done" /\ last.op \in GetOps) =>
        LET U == Val(heap["x"])
            fits == U \in TargetType(last.op)
            unsigned == last.op \in {"get_u32", "get_u64"}
        IN /\ (ret = ZZ_OK) = fits
           /\ fits => (aux.w /\ aux.dest = U)
           /\ ~fits => (~aux.w /\ aux.dest = last.imm)
           /\ (~fits /\ unsigned /\ U < 0) => ret = ZZ_VAL
           /\ (~fits /\ ~(unsigned /\ U < 0)) => ret = ZZ_BUF

(* a negative value of two digits was refused with ZZ_VAL by zz_get_u64,
   and the destination still holds its nonzero old content *)
GetExactWitness ==
    /\ pc = "done"
    /\ last.op = "get_u64"
    /\ heap["x"].negative
    /\ heap["x"].size = 2
    /\ ret = ZZ_VAL
    /\ aux.dest = last.imm
    /\ last.imm # 0

-----------------------------------------------------------------------------
(* Conversion from text: zz_set_str on every short text over an alphabet
   with the two digits, a prefix letter in both cases, the separator, the
   blank and the signs, into a value that holds a number *)

MaxStrLen == 5
Alphabet == {"0", "1", "b", "B", "_", " ", "-", "+"}
Texts == UNION {[1 .. n -> Alphabet] : n \in 0 .. MaxStrLen}
Bases == {0, 1, 2, 37}

InitStr ==
    /\ heap = HeapOf(MkZ(-5), InitZ, InitZ)
    /\ pc = "start"
    /\ ret = ZZ_OK
    /\ last = NoOp
    /\ pre = heap
    /\ aux = [str |-> <<>>, base |-> 0]
    /\ tracker = EmptyTracker

SetStr ==
    /\ pc = "start"
    /\ \E t \in Texts, base \in Bases :
          LET r == zz_set_str(M0(heap), Arr(t), base, "x")
          IN /\ heap' = r.h
             /\ ret' = r.ret
             /\ last' = [NoOp EXCEPT !.op = "set_str", !.o1 = "x"]
             /\ pre' = heap
             /\ pc' = "done"
             /\ aux' = [str |-> Arr(t), base |-> base]
             /\ UNCHANGED tracker

NextStr == SetStr

SpecStr == InitStr /\ [][NextStr]_vars

(* reading a text without the parser *)
IsDigitChar(c) == c \in {"0", "1"}
IsPrefixChar(c) == c \in {"b", "B"}
IsSignChar(c) == c \in {"-", "+"}
SupportedBase(b) == b = 0 \/ (b >= 2 /\ b <= 36)
NotSeparator(c) == c # "_" /\ c # " "
Clean(t) == SelectSeq(t, NotSeparator)
Unsigned(t) == IF Len(t) > 0 /\ IsSignChar(t[1]) THEN Tail(t) ELSE t
HasPrefix(t) == Len(t) >= 2 /\ t[1] = "0" /\ IsPrefixChar(t[2])
Unprefixed(t) == IF HasPrefix(t) THEN SubSeq(t, 3, Len(t)) ELSE t

RECURSIVE BinaryValue(_, _)
BinaryValue(t, n) ==
    IF n = 0 THEN 0 ELSE 2 * BinaryValue(t, n - 1) + (IF t[n] = "1" THEN 1 ELSE 0)

(* the integer a text of sign, prefix and binary digits stands for *)
TextValue(t) ==
    LET d == Unprefixed(Unsigned(t))
    IN (IF Len(t) > 0 /\ t[1] = "-" THEN -1 ELSE 1) * BinaryValue(d, Len(d))

(* every underscore stands between two digits and every blank stands after
   the final digit *)
WellSeparated(t) ==
    /\ \A i \in 1 .. Len(t) : t[i] = "_" =>
          /\ i > 1 /\ i < Len(t)
          /\ IsDigitChar(t[i - 1]) /\ IsDigitChar(t[i + 1])
    /\ \A i \in 1 .. Len(t) : t[i] = " " =>
          /\ \A j \in i .. Len(t) : t[j] = " "
          /\ \E j \in 1 .. i - 1 : IsDigitChar(t[j])
          /\ i > 1 /\ (IsDigitChar(t[i - 1]) \/ t[i - 1] = " ")

(* C22: for every base, a text whose digits are separated by single
   underscores and/or followed by trailing whitespace parses with ZZ_OK to
   the same integer as the text without those underscores and that
   whitespace, whenever the latter parses; in particular "0" with an
   optional sign and trailing whitespace parses to zero. *)
SeparatorsIgnored ==
    (pc = "done" /\ last.op = "set_str" /\ WellSeparated(aux.str)) =>
        LET c == zz_set_str(M0(pre), Clean(aux.str), aux.base, "x")
        IN c.ret = ZZ_OK =>
              /\ Val(c.h["x"]) = TextValue(Clean(aux.str))
              /\ ret = ZZ_OK
              /\ Canonical(heap["x"])
              /\ ~Poisoned(heap["x"].digits, heap["x"].size)
              /\ Val(heap["x"]) = Val(c.h["x"])

(* a text with one underscore between two digits and one trailing blank
   is taken with ZZ_OK, but for a number that is not the one its digits
   write *)
SeparatorDropsDigit ==
    /\ pc = "done"
    /\ last.op = "set_str"
    /\ aux.base = 2
    /\ aux.str = <<"1", "_", "1", " ">>
    /\ ret = ZZ_OK
    /\ Val(heap["x"]) # TextValue(Clean(aux.str))

(* the ways a text is malformed *)
NoDigits(t) == ~\E i \in 1 .. Len(Unprefixed(Unsigned(t))) :
                   IsDigitChar(Unprefixed(Unsigned(t))[i])
BlankBetweenDigits(t) ==
    \E i, j, k \in 1 .. Len(t) :
        i < j /\ j < k /\ IsDigitChar(t[i]) /\ t[j] = " " /\ IsDigitChar(t[k])
BadUnderscore(t) ==
    \E i \in 1 .. Len(t) :
        /\ t[i] = "_"
        /\ \/ i = 1 \/ IsSignChar(t[i - 1])
           \/ i = Len(t) \/ t[i + 1] = " "
           \/ t[i + 1] = "_"
           \/ IsPrefixChar(t[i - 1]) \/ IsPrefixChar(t[i + 1])
PrefixCount(t) == Cardinality({i \in 1 .. Len(t) : IsPrefixChar(t[i])})
InvalidChar(t) ==
    \E i \in 1 .. Len(t) :
        \/ IsSignChar(t[i]) /\ i > 1 /\ t[i - 1] # " "
        \/ IsPrefixChar(t[i]) /\ ~(i > 1 /\ t[i - 1] = "0")
Malformed(t, base) ==
    \/ ~SupportedBase(base)
    \/ NoDigits(t)
    \/ InvalidChar(t)
    \/ BlankBetweenDigits(t)
    \/ BadUnderscore(t)
    \/ PrefixCount(t) > 1

(* C23: zz_set_str rejects malformed text with ZZ_VAL and leaves the
   output unchanged: an unsupported base, an empty digit sequence, a
   character that is not a digit of the base, whitespace between digits,
   an underscore that is leading, trailing, doubled or adjacent to the
   base prefix, and more than one base prefix. *)
MalformedRejected ==
    (pc = "done" /\ last.op = "set_str" /\ Malformed(aux.str, aux.base)) =>
        (ret = ZZ_VAL /\ heap = pre)

(* a text with two base prefixes is taken with ZZ_OK when the base is
   detected from the text *)
DoublePrefixAccepted ==
    /\ pc = "done"
    /\ last.op = "set_str"
    /\ aux.base = 0
    /\ aux.str = <<"0", "b", "0", "b", "1">>
    /\ ret = ZZ_OK
    /\ Val(heap["x"]) = 1

-----------------------------------------------------------------------------
(* Export and import: zz_export of x into a fresh buffer of len words, then
   zz_import of the buffer into y, which holds a number *)

MaxExportLen == 5
Layouts == {byte_layout, pyint_layout, native_layout}

InitExport ==
    /\ \E x \in Values, y \in OldValues : heap = HeapOf(MkZ(x), MkZ(y), InitZ)
    /\ pc = "start"
    /\ ret = ZZ_OK
    /\ last = NoOp
    /\ pre = heap
    /\ aux = [layout |-> byte_layout, len |-> 0, buf |-> <<>>, over |-> FALSE]
    /\ tracker = EmptyTracker

Export ==
    /\ pc = "start"
    /\ \E layout \in Layouts, len \in 0 .. MaxExportLen :
          LET r == zz_export(heap["x"], layout, len, KOut(0, len, TRUE))
          IN /\ pc' = "exported"
             /\ ret' = r.ret
             /\ aux' = [layout |-> layout, len |-> len, buf |-> r.data, over |-> r.over]
             /\ last' = [NoOp EXCEPT !.op = "export", !.u = "x"]
             /\ UNCHANGED <<heap, pre, tracker>>

Import ==
    /\ pc = "exported"
    /\ ret = ZZ_OK
    /\ LET r == zz_import(M0(heap), aux.len, aux.buf, aux.layout, "y")
       IN /\ pc' = "imported"
          /\ heap' = r.h
          /\ ret' = r.ret
          /\ last' = [NoOp EXCEPT !.op = "import", !.o1 = "y"]
          /\ UNCHANGED <<pre, aux, tracker>>

NextExport == Export \/ Import

SpecExport == InitExport /\ [][NextExport]_vars

(* ceil(bitlen / bits_per_digit) for the value in x *)
ExportNeed == (BitLen(Val(pre["x"])) + aux.layout.bits_per_digit - 1)
                  \div aux.layout.bits_per_digit

(* C24: for every non-negative u and each layout (bytes, most significant
   first; half-digit words; native digits), zz_export with len at least
   ceil(bitlen / bits_per_digit) followed by zz_import of the same buffer
   yields v == u whatever v held before, and zz_export with a smaller len
   returns ZZ_BUF and writes nothing. *)
ExportImportRoundTrip ==
    (pc # "start" /\ Val(pre["x"]) >= 0) =>
        /\ (pc = "exported" /\ aux.len < ExportNeed) =>
               (ret = ZZ_BUF /\ ~aux.over /\ aux.buf = KOut(0, aux.len, TRUE))
        /\ (pc = "exported" /\ aux.len >= ExportNeed) => (ret = ZZ_OK /\ ~aux.over)
        /\ pc = "imported" =>
               /\ ret = ZZ_OK
               /\ ~Poisoned(heap["y"].digits, heap["y"].size)
               /\ Val(heap["y"]) = Val(pre["x"])
               /\ zz_cmp(heap, "x", "y") = ZZ_EQ

(* a positive x exported with exactly the words it needs and imported into
   a y that held a negative number leaves y == -x *)
ImportKeepsSign ==
    /\ pc = "imported"
    /\ ret = ZZ_OK
    /\ Val(pre["x"]) > 0
    /\ pre["y"].negative
    /\ aux.len = ExportNeed
    /\ Val(heap["y"]) = 0 - Val(pre["x"])

-----------------------------------------------------------------------------
(* SpecThreads: threads that each run operations of their own; every
   thread has its instance of zz_tracker and of zz_env, the allocator and
   its addresses are shared.  tracker[s] is the registry in slot s of the
   thread-local storage, aux.env[s] the thread whose frame the jmp_buf in
   slot s holds (0: none), aux.owner[a] the thread that address a was
   handed to (0: free), aux.held[th] the pointers the kernel of th holds. *)

MaxThreads == 2
MaxThreadAddr == 3
MaxThreadTracked == 2
MaxThreadOps == 2
Threads == 1 .. MaxThreads
ThreadAddr == 1 .. MaxThreadAddr

(* one registry and one jmp_buf for all threads *)
TLS_shared(th) == 1

(* _Thread_local: the slot of the calling thread *)
TLS(th) == th

EmptyRegistry == [size |-> 0, alloc |-> 0, ptrs |-> <<>>, arr |-> FALSE]

ThState(th) ==
    LET r == tracker[TLS(th)]
    IN [size |-> r.size, alloc |-> r.alloc, ptrs |-> r.ptrs, live |-> aux.live,
        arr |-> r.arr, dfree |-> aux.dfree, oob |-> aux.oob, jmp |-> FALSE,
        res |-> 0]

InitThreads ==
    /\ heap = HeapOf(InitZ, InitZ, InitZ)
    /\ pc = [th \in Threads |-> "idle"]
    /\ ret = [th \in Threads |-> ZZ_OK]
    /\ last = NoOp
    /\ pre = heap
    /\ aux = [live |-> {}, owner |-> [a \in ThreadAddr |-> 0],
              held |-> [th \in Threads |-> {}], env |-> [s \in Threads |-> 0],
              ops |-> [th \in Threads |-> 0], dfree |-> FALSE, oob |-> FALSE,
              foreign |-> FALSE, wild |-> FALSE]
    /\ tracker = [s \in Threads |-> EmptyRegistry]

(* the state after a registry call of thread th that came back as t;
   longjmp(zz_env, 1) resumes the frame the thread's jmp_buf holds *)
ThFinish(th, t, held, op) ==
    LET freed == aux.live \ t.live
        target == aux.env[TLS(th)]
        jumps == t.jmp /\ target = th
    IN /\ tracker' = [tracker EXCEPT ![TLS(th)] =
                         [size |-> t.size, alloc |-> t.alloc, ptrs |-> t.ptrs,
                          arr |-> t.arr]]
       /\ aux' = [aux EXCEPT
                     !.live = t.live,
                     !.owner = [a \in ThreadAddr |->
                                   IF a \in t.live \ aux.live THEN th
                                   ELSE IF a \in freed THEN 0 ELSE @[a]],
                     !.held[th] = IF t.jmp THEN {} ELSE held,
                     !.dfree = t.dfree,
                     !.oob = t.oob,
                     !.foreign = @ \/ \E a \in freed : aux.owner[a] # th,
                     !.wild = @ \/ (t.jmp /\ target # th)]
       /\ pc' = IF jumps THEN [pc EXCEPT ![th] = "failed"] ELSE pc
       /\ ret' = IF jumps THEN [ret EXCEPT ![th] = ZZ_MEM] ELSE ret
       /\ last' = [NoOp EXCEPT !.op = op, !.imm = th]
       /\ UNCHANGED <<heap, pre>>

(* if (TMP_OVERFLOW) return ZZ_MEM; then the kernel starts *)
ThBegin(th) ==
    /\ pc[th] = "idle"
    /\ aux.ops[th] < MaxThreadOps
    /\ pc' = [pc EXCEPT ![th] = "kernel"]
    /\ aux' = [aux EXCEPT !.ops[th] = @ + 1, !.env[TLS(th)] = th]
    /\ last' = [NoOp EXCEPT !.op = "begin", !.imm = th]
    /\ UNCHANGED <<heap, pre, ret, tracker>>

ThAlloc(th) ==
    /\ pc[th] = "kernel"
    /\ tracker[TLS(th)].size < MaxThreadTracked
    /\ \E grow_ok \in BOOLEAN, ok \in BOOLEAN, new \in ThreadAddr \ aux.live :
          LET t == zz_allocate_function(ThState(th), grow_ok, ok, new)
          IN ThFinish(th, t, aux.held[th] \cup {t.res}, "malloc")

(* the allocator has no address left *)
ThAllocFail(th) ==
    /\ pc[th] = "kernel"
    /\ ThreadAddr \ aux.live = {}
    /\ ThFinish(th, zz_allocate_function(ThState(th), TRUE, FALSE, 0),
                aux.held[th], "malloc")

ThFree(th) ==
    /\ pc[th] = "kernel"
    /\ \E ptr \in aux.held[th] :
          ThFinish(th, zz_free_function(ThState(th), ptr), aux.held[th] \ {ptr}, "free")

(* the kernel returns and the operation returns ZZ_OK *)
ThEnd(th) ==
    /\ pc[th] = "kernel"
    /\ aux.held[th] = {}
    /\ pc' = [pc EXCEPT ![th] = "idle"]
    /\ ret' = [ret EXCEPT ![th] = ZZ_OK]
    /\ last' = [NoOp EXCEPT !.op = "end", !.imm = th]
    /\ UNCHANGED <<heap, pre, aux, tracker>>

NextThreads ==
    \E th \in Threads :
        ThBegin(th) \/ ThAlloc(th) \/ ThAllocFail(th) \/ ThFree(th) \/ ThEnd(th)

SpecThreads == InitThreads /\ [][NextThreads]_vars

(* the temporaries thread th was handed and has not freed *)
OwnedBy(th) == {a \in ThreadAddr : aux.owner[a] = th}

ThreadsSafe ==
    /\ ~aux.foreign /\ ~aux.wild /\ ~aux.dfree /\ ~aux.oob
    /\ \A th \in Threads :
          /\ \A i \in 1 .. tracker[th].size :
                tracker[th].ptrs[i] > 0 => aux.owner[tracker[th].ptrs[i]] = th
          /\ pc[th] \in {"idle", "failed"} =>
                /\ OwnedBy(th) = {}
                /\ tracker[th] = EmptyRegistry
                /\ zz_get_alloc_state(tracker[th]) = 0

(* a step of one thread leaves the registry, the position and the
   temporaries of every other thread as they were *)
ThreadStep ==
    \A th \in Threads : th # last'.imm =>
        /\ pc'[th] = pc[th]
        /\ ret'[th] = ret[th]
        /\ tracker'[th] = tracker[th]
        /\ aux'.held[th] = aux.held[th]
        /\ {a \in ThreadAddr : aux'.owner[a] = th} = OwnedBy(th)

(* C26: under every interleaving of threads that work on their own
   values, an allocation failure in one thread frees only temporaries of
   that thread and resumes only that thread's checkpoint, a step of one
   thread leaves the other threads' registries and operations in flight as
   they were, and a thread that is not inside an operation holds no
   temporary and sees zz_get_alloc_state() == 0. *)
ThreadsIndependent == []ThreadsSafe /\ [][ThreadStep]_vars

(* an allocation of thread 1 failed while thread 2 was inside a kernel
   holding a temporary, and thread 2 still holds it *)
ThreadsIndependentWitness ==
    /\ last.op = "malloc"
    /\ last.imm = 1
    /\ pc[1] = "failed"
    /\ pc[2] = "kernel"
    /\ aux.held[2] # {}
    /\ tracker[2].size > 0
    /\ aux.held[2] \subseteq aux.live

(***************************************************************************)
(* Checkpoints: TMP_OVERFLOW and the kernel calls that may allocate        *)
(***************************************************************************)

MaxCalls == 2
MaxAlias == 3

(* if (TMP_OVERFLOW): setjmp(zz_env) in the frame of the caller *)
TMP_OVERFLOW == [k |-> "setjmp", f |-> "zz_env"]

(* a kernel call that may allocate scratch memory *)
Kernel(f) == [k |-> "kernel", f |-> f]

(* a nested call of a zz_* function *)
Call(f) == [k |-> "call", f |-> f]

(* the copy-and-recurse branch of an operation whose output aliases an
   input or whose optional output is NULL *)
Aliased(op) == <<Call(op)>>

(* the paths through each operation: its TMP_OVERFLOW, its allocating
   kernel calls and its nested calls, in program order *)
Paths(op) ==
    CASE op = "zz_mul_u64" -> {<<>>, <<TMP_OVERFLOW>>}
      [] op = "zz_mul" ->
            {<<Call("zz_mul_u64")>>, Aliased(op),
             <<TMP_OVERFLOW, Kernel("mpn_mul_n")>>,
             <<TMP_OVERFLOW, Kernel("mpn_sqr")>>,
             <<TMP_OVERFLOW, Kernel("mpn_mul")>>}
      [] op = "zz_div" ->
            {<<>>, Aliased(op), <<TMP_OVERFLOW, Kernel("mpn_tdiv_qr")>>}
      [] op = "zz_get_str" -> {<<>>, <<TMP_OVERFLOW, Kernel("mpn_get_str")>>}
      [] op = "zz_set_str" -> {<<>>, <<TMP_OVERFLOW, Kernel("mpn_set_str")>>}
      [] op = "zz_pow" -> {<<>>, Aliased(op), <<Kernel("mpn_pow_1")>>}
      [] op = "zz_gcd" ->
            {<<>>, <<TMP_OVERFLOW>>, <<TMP_OVERFLOW, Kernel("mpn_gcd")>>}
      [] op = "zz_inverse_euclidext" ->
            {<<>>, <<Call("zz_div"), Call("zz_mul"), Call("zz_mul")>>}
      [] op = "zz_gcdext" ->
            {<<>>, <<Call("zz_gcd")>>,
             <<TMP_OVERFLOW, Kernel("mpn_gcdext")>>,
             <<TMP_OVERFLOW, Kernel("mpn_gcdext"), Call("zz_mul"),
               Call("zz_div")>>,
             <<TMP_OVERFLOW, Kernel("mpn_gcdext"), Call("zz_div"),
               Call("zz_div"), Call("zz_inverse_euclidext")>>}
      [] op = "zz_inverse" -> {<<Call("zz_gcdext")>>}
      [] op = "zz_lcm" ->
            {<<Call("zz_gcd")>>,
             <<Call("zz_gcd"), Call("zz_div"), Call("zz_mul")>>}
      [] op = "zz_powm" ->
            {<<>>, Aliased(op), <<Call("zz_inverse")>>,
             <<Call("zz_inverse"), TMP_OVERFLOW, Kernel("mpz_powm")>>,
             <<TMP_OVERFLOW, Kernel("mpz_powm")>>}
      [] op = "zz_sqrtrem" ->
            {<<>>, Aliased(op), <<TMP_OVERFLOW, Kernel("mpn_sqrtrem")>>}
      [] op = "zz_fac" -> {<<TMP_OVERFLOW, Kernel("mpz_fac_ui")>>}
      [] op = "zz_bin" -> {<<TMP_OVERFLOW, Kernel("mpz_bin_uiui")>>}

(* the operations of zz.h; zz_gcd and zz_inverse are static *)
PublicOps ==
    {"zz_mul_u64", "zz_mul", "zz_div", "zz_get_str", "zz_set_str", "zz_pow",
     "zz_gcdext", "zz_lcm", "zz_powm", "zz_sqrtrem", "zz_fac", "zz_bin"}

(* the jmp_buf: never set; set by the frame at a depth of the call stack;
   or set by a frame whose function has returned (frame 0) *)
EnvUnset == [set |-> FALSE, frame |-> 0]
EnvOf(depth) == [set |-> TRUE, frame |-> depth]
EnvReturned == EnvOf(0)

NoKernel == [f |-> "none", op |-> "none", frame |-> 0, env |-> EnvUnset]

(* the frame of a call of op that takes path p; al counts the
   copy-and-recurse calls above it *)
Frame(op, p, al) == [op |-> op, path |-> p, ip |-> 1, al |-> al]

Top == aux.stack[Len(aux.stack)]

AtStep(k) ==
    /\ pc = "run"
    /\ Top.ip <= Len(Top.path)
    /\ Top.path[Top.ip].k = k

Advance(stack) ==
    [stack EXCEPT ![Len(stack)].ip = @ + 1]

(* the frames whose functions have not returned *)
ActiveFrames == 1 .. Len(aux.stack)

(* the functions of the frames from depth d up return *)
Unwind(env, d) == IF env.set /\ env.frame >= d THEN EnvReturned ELSE env

InitJmp ==
    /\ heap = HeapOf(InitZ, InitZ, InitZ)
    /\ pc = "idle"
    /\ ret = ZZ_OK
    /\ last = NoOp
    /\ pre = heap
    /\ aux = [stack |-> <<>>, env |-> EnvUnset, calls |-> 0,
              kern |-> NoKernel, wild |-> FALSE]
    /\ tracker = EmptyTracker

(* the program calls an operation of the library *)
JmpCall ==
    /\ pc = "idle"
    /\ aux.calls < MaxCalls
    /\ \E op \in PublicOps : \E p \in Paths(op) :
          /\ aux' = [aux EXCEPT !.stack = <<Frame(op, p, 0)>>,
                                !.calls = @ + 1,
                                !.kern = NoKernel]
          /\ last' = [NoOp EXCEPT !.op = op]
    /\ pc' = "run"
    /\ UNCHANGED <<heap, pre, ret, tracker>>

(* setjmp(zz_env) stores the calling frame in the jmp_buf *)
JmpSet ==
    /\ AtStep("setjmp")
    /\ aux' = [aux EXCEPT !.stack = Advance(@), !.env = EnvOf(Len(aux.stack)),
                          !.kern = NoKernel]
    /\ last' = [NoOp EXCEPT !.op = "setjmp"]
    /\ UNCHANGED <<heap, pre, pc, ret, tracker>>

(* a nested zz_* call *)
JmpNested ==
    /\ AtStep("call")
    /\ LET f == Top.path[Top.ip].f
       IN \E p \in Paths(f) :
             LET al == IF p = Aliased(f) /\ f = Top.op /\ Top.path = Aliased(f)
                       THEN Top.al + 1 ELSE 0
             IN /\ al < MaxAlias
                /\ aux' = [aux EXCEPT
                              !.stack = Append(@, Frame(f, p, al)),
                              !.kern = NoKernel]
    /\ last' = [NoOp EXCEPT !.op = "call"]
    /\ UNCHANGED <<heap, pre, pc, ret, tracker>>

(* the kernel runs; when one of its allocations fails the allocation
   function calls longjmp(zz_env, 1): the frame the jmp_buf holds returns
   ZZ_MEM and so does every caller above it; with a jmp_buf that was never
   set or whose frame has returned the behaviour is undefined *)
JmpKernel ==
    /\ AtStep("kernel")
    /\ \E fails \in BOOLEAN :
          LET k == [f |-> Top.path[Top.ip].f, op |-> Top.op, frame |-> Len(aux.stack),
                    env |-> aux.env]
          IN IF ~fails
             THEN /\ aux' = [aux EXCEPT !.stack = Advance(@), !.kern = k]
                  /\ UNCHANGED <<pc, ret>>
             ELSE IF aux.env.frame \in ActiveFrames
             THEN /\ aux' = [aux EXCEPT !.stack = <<>>, !.kern = k,
                                        !.env = EnvReturned]
                  /\ pc' = "idle"
                  /\ ret' = ZZ_MEM
             ELSE /\ aux' = [aux EXCEPT !.kern = k, !.wild = TRUE]
                  /\ pc' = "trap"
                  /\ UNCHANGED ret
    /\ last' = [NoOp EXCEPT !.op = "kernel"]
    /\ UNCHANGED <<heap, pre, tracker>>

(* the function returns to its caller *)
JmpReturn ==
    /\ pc = "run"
    /\ Top.ip > Len(Top.path)
    /\ LET rest == SubSeq(aux.stack, 1, Len(aux.stack) - 1)
       IN IF rest = <<>>
          THEN /\ aux' = [aux EXCEPT !.stack = <<>>, !.kern = NoKernel,
                                     !.env = Unwind(@, 1)]
               /\ pc' = "idle"
               /\ ret' = ZZ_OK
          ELSE /\ aux' = [aux EXCEPT !.stack = Advance(rest),
                                     !.kern = NoKernel,
                                     !.env = Unwind(@, Len(aux.stack))]
               /\ UNCHANGED <<pc, ret>>
    /\ last' = [NoOp EXCEPT !.op = "return"]
    /\ UNCHANGED <<heap, pre, tracker>>

NextJmp == JmpCall \/ JmpSet \/ JmpNested \/ JmpKernel \/ JmpReturn

SpecJmp == InitJmp /\ [][NextJmp]_vars

(* C27: every kernel call that may allocate scratch memory runs with the
   jmp_buf holding the frame of the operation that makes the call, that
   is, the operation ran TMP_OVERFLOW itself, its frame is active and no
   nested call has replaced the checkpoint; and a failed allocation never
   jumps to a checkpoint that was never set or whose frame has returned. *)
CheckpointDiscipline ==
    /\ last.op = "kernel" => aux.kern.env = EnvOf(aux.kern.frame)
    /\ ~aux.wild

(* mpn_pow_1 ran in zz_pow while the jmp_buf held the frame of an
   operation that had already returned, and its allocation failed *)
PowWithoutCheckpoint ==
    /\ last.op = "kernel"
    /\ aux.kern.f = "mpn_pow_1"
    /\ aux.kern.op = "zz_pow"
    /\ aux.kern.env = EnvReturned
    /\ aux.wild
    /\ pc = "trap"

-----------------------------------------------------------------------------
(* SpecScratch: one call of an operation that works on scratch values, in
   which the fail-th allocation attempt fails (0: none does).  The first
   operand is drawn from Values or has ZZ_DIGITS_MAX digits; the texts
   include one that needs more than ZZ_DIGITS_MAX digits. *)

ScratchValues == Values \cup {0 - (B ^ ZZ_DIGITS_MAX - 1)}
ScratchSeconds == {-14, -5, -3, -1, 0, 2, 3, 7}
ScratchModuli == {0, 3, -5}
ScratchTexts == {<<"1">>, <<"1", "0", "1">>, <<"1", "_">>, <<"b">>,
                 <<"1", "1", "1", "1", "1", "1", "1", "1">>}
MaxScratchFail == 16
ScratchFails == 0 .. MaxScratchFail

InitScratch ==
    /\ \E x \in ScratchValues, y \in ScratchSeconds, z \in ScratchModuli :
          heap = HeapOf(MkZ(x), MkZ(y), MkZ(z))
    /\ pc = "start"
    /\ ret = ZZ_OK
    /\ last = NoOp
    /\ pre = heap
    /\ aux = [trap |-> FALSE]
    /\ tracker = EmptyTracker

FinishScratch(r, l) ==
    /\ heap' = r.h
    /\ ret' = r.ret
    /\ last' = l
    /\ pre' = heap
    /\ pc' = "done"
    /\ aux' = [trap |-> r.trap]
    /\ UNCHANGED tracker

ScratchPowm ==
    /\ pc = "start"
    /\ \E res \in {"x", "z2"}, fail \in ScratchFails :
          FinishScratch(zz_powm(MFail(heap, fail, 0), "x", "y", "z", res),
                        [NoOp EXCEPT !.op = "powm", !.u = "x", !.v = "y",
                                     !.o1 = res])

ScratchBit ==
    /\ pc = "start"
    /\ \E op \in LogicOps, w \in {"x", "z2"}, fail \in ScratchFails :
          FinishScratch(ApplyBit(MFail(heap, fail, 0), op, "x", "y", w),
                        [NoOp EXCEPT !.op = op, !.u = "x", !.v = "y",
                                     !.o1 = w])

ScratchGcdext ==
    /\ pc = "start"
    /\ \E s \in {"z3", NULL}, t \in {"z", NULL}, fail \in ScratchFails :
          FinishScratch(zz_gcdext(MFail(heap, fail, 0), "x", "y", "z2", s, t),
                        [NoOp EXCEPT !.op = "gcdext", !.u = "x", !.v = "y",
                                     !.o1 = "z2", !.o2 = s, !.o3 = t])

ScratchSetStr ==
    /\ pc = "start"
    /\ \E str \in ScratchTexts, base \in {0, DEFAULT_BASE, 3},
          fail \in ScratchFails :
          FinishScratch(zz_set_str(MFail(heap, fail, 0), str, base, "z2"),
                        [NoOp EXCEPT !.op = "set_str", !.o1 = "z2"])

NextScratch == ScratchPowm \/ ScratchBit \/ ScratchGcdext \/ ScratchSetStr

SpecScratch == InitScratch /\ [][NextScratch]_vars

(* C28: when zz_powm, zz_and, zz_or, zz_xor, zz_gcd, zz_gcdext or
   zz_set_str has returned, with whatever code, every scratch value and
   buffer the operation created has been released, and the operation did
   not end in an access through a pointer it had already freed and
   cleared. *)
ScratchReleased ==
    pc = "done" => (\A s \in Temps : heap[s].alloc = 0) /\ ~aux.trap

(* zz_powm with a negative exponent whose inverse exists returned ZZ_MEM
   from its TMP_OVERFLOW and left the inverse allocated in o2 *)
PowmLeavesScratch ==
    /\ pc = "done"
    /\ last.op = "powm"
    /\ pre["y"].negative
    /\ ret = ZZ_MEM
    /\ heap["powm_o2"].alloc > 0
    /\ heap["powm_o1"].alloc > 0

-----------------------------------------------------------------------------
(* The operands zz_gcd hands to the kernel *)

(* zz_gcd up to the kernel call: the operands ordered by digit count, their
   absolute values in o1 and o2, both divided by the common power of two *)
zz_gcd_operands(m, u0, v0) ==
    LET swap == m.h[u0].size < m.h[v0].size
        u == IF swap THEN v0 ELSE u0
        v == IF swap THEN u0 ELSE v0
        shift == MIN(zz_lsbpos(m.h[u]), zz_lsbpos(m.h[v]))
    IN OrElse(zz_abs(zz_init(zz_init(m, "o1"), "o2"), u, "o1"), LAMBDA a1 :
       OrElse(zz_abs(a1, v, "o2"), LAMBDA a :
       OrElse(IF shift = 0 THEN a ELSE zz_quo_2exp(a, "o1", shift, "o1"), LAMBDA b1 :
       IF shift = 0 THEN b1 ELSE zz_quo_2exp(b1, "o2", shift, "o2"))))

(* the call zz_gcdext(x, y, g, NULL, NULL) with nonzero x and y returned *)
GcdOnlyCalled ==
    /\ pc = "done" /\ last.op = "gcdext_subset"
    /\ last.o1 # NULL /\ last.o2 = NULL /\ last.o3 = NULL
    /\ pre["x"].size # 0 /\ pre["y"].size # 0

(* C29: for nonzero u and v the kernel is called within its
   preconditions: after the common shift the first operand has at least as
   many digits as the second, the top digit of the second is not zero and
   one of the two is odd; and g is gcd(|u|, |v|). *)
GcdKernelContract ==
    GcdOnlyCalled =>
        LET c == zz_gcd_operands(M0(pre), "x", "y").h
            un == c["o1"].size
            vn == c["o2"].size
        IN /\ un >= vn
           /\ vn > 0
           /\ c["o2"].digits[vn] # 0
           /\ Val(c["o1"]) % 2 = 1 \/ Val(c["o2"]) % 2 = 1
           /\ ret = ZZ_OK
           /\ Defined(heap[last.o1])
           /\ Val(heap[last.o1]) = GCD(Abs(Val(pre["x"])), Abs(Val(pre["y"])))

(* mpn_gcd was called with a one-digit first operand and a two-digit
   second operand *)
GcdKernelShortFirst ==
    /\ GcdOnlyCalled
    /\ LET c == zz_gcd_operands(M0(pre), "x", "y").h
       IN /\ c["o1"].size = 1
          /\ c["o2"].size = 2
          /\ c["o2"].digits[2] # 0

-----------------------------------------------------------------------------
(* The registry between two calls of the allocation functions *)

(* the positions of the registry that hold the address a *)
TrackedAt(a) == {i \in 1 .. tracker.size : tracker.ptrs[i] = a}

(* C30: after any sequence of tracked allocate, reallocate and free calls
   on tracked pointers, in any order, size <= alloc, every live temporary
   is in ptrs[0..size) exactly once and nothing else is, the last entry is
   not NULL when size > 0, the registry's own storage is released exactly
   when size = 0, and no search left the range [0, size). *)
RegistryInvariant ==
    /\ tracker.size <= tracker.alloc
    /\ Len(tracker.ptrs) = tracker.alloc
    /\ \A a \in aux.live : Cardinality(TrackedAt(a)) = 1
    /\ \A i \in 1 .. tracker.size :
          tracker.ptrs[i] = 0 \/ tracker.ptrs[i] \in aux.live
    /\ tracker.size > 0 => tracker.ptrs[tracker.size] # 0
    /\ tracker.size = 0 <=> (tracker.alloc = 0 /\ tracker.ptrs = <<>> /\ ~aux.arr)
    /\ ~aux.oob
    /\ ~aux.dfree

(* the registry has grown past its first TRACKER_SIZE_INCR entries, and a
   free that was not the last allocation has left a hole below two live
   temporaries *)
RegistryInvariantWitness ==
    /\ last.op = "free"
    /\ pc = "kernel"
    /\ tracker.alloc > TRACKER_SIZE_INCR
    /\ tracker.size = 3
    /\ tracker.ptrs[1] = 0
    /\ tracker.ptrs[2] # 0
    /\ tracker.ptrs[3] # 0
    /\ Cardinality(aux.live) = 2

====
